---- MODULE Spec2Model ----
(***************************************************************************)
(* Rate-reconstruction engine of fedex_rate_tool.py (parse-ca-rates):      *)
(* table normalisation, postal-code and zone-matrix parsing, zone          *)
(* resolution, service page detection, the flat and the freight builder.   *)
(*                                                                         *)
(* A Python str is a sequence of one-character strings; Python's None is   *)
(* the value None below; an optional result is a sequence of length 0 or 1.*)
(***************************************************************************)
EXTENDS Integers, Sequences, FiniteSets, TLC

VARIABLES
    pc,               \* the step the run has reached
    raw_table,        \* a raw table as extracted
    table,            \* its normalised rows
    table2,           \* the normalised rows, normalised again
    text,             \* text of the Postal Code Zone Index page
    zone_tables,      \* tables of the Intra-Canada Zone Index page
    postal_zone_map,  \* dict (start, end) -> zone code, in insertion order
    zone_matrix,      \* dict (origin zone, destination zone) -> int
    origin,           \* args.origin
    origin_zone,      \* origin_zone of generate_zones_data
    zones_data,       \* the rows generate_zones_data returns
    pdf,              \* pdf.pages: each page its text and its raw tables
    work,             \* the raw tables a builder has still to scan
    rates,            \* dict weight -> dict zone -> Decimal of a builder
    per_pound_rates,  \* per_pound_rates of a builder
    minimum_charges,  \* minimum_charges of the freight builder
    def_idx,          \* the entry of SERVICE_DEFINITIONS the locator is at
    services,         \* the services detect_service_pages has found
    services_data,    \* (name, rates, is_freight) of the services parsed
    workbook,         \* the sheets write_ca_excel has saved
    pdf_files,        \* the documents of the input directory, in glob order
    todo,             \* the files the loop has still to take
    archive,          \* the files moved to archive/
    failed_parsing,   \* the files moved to failed_parsing/
    outputs,          \* file -> the rows of the sheet written for it
    success_count,
    failed_count,
    returned,         \* << >> until the command returns, then what it returns
    current_lower,    \* the lower bound the range search stands at
    max_postal,       \* the largest postal code to cover
    found_ranges      \* the ranges found so far, in the order found

normVars == <<raw_table, table, table2>>

zoneVars == <<text, zone_tables, postal_zone_map, zone_matrix, origin, origin_zone, zones_data>>

rateVars == <<pdf, work, rates, per_pound_rates, minimum_charges>>

svcVars == <<def_idx, services, services_data, workbook>>

batchVars == <<pdf_files, todo, archive, failed_parsing, outputs, success_count,
               failed_count, returned>>

searchVars == <<current_lower, max_postal, found_ranges>>

vars == <<pc, normVars, zoneVars, rateVars, svcVars, batchVars, searchVars>>

(***************************************************************************)
(* Characters and the str methods the parsers use.                         *)
(***************************************************************************)
None == <<"<None>">>

NL == "\n"

Whitespace == {" ", "\n", "\t"}

\* U+2013 and U+2014, one character each
EnDash == "<en-dash>"

EmDash == "<em-dash>"

UpperAlphabet == <<"A","B","C","D","E","F","G","H","I","J","K","L","M",
                   "N","O","P","Q","R","S","T","U","V","W","X","Y","Z">>

LowerAlphabet == <<"a","b","c","d","e","f","g","h","i","j","k","l","m",
                   "n","o","p","q","r","s","t","u","v","w","x","y","z">>

DigitChars == <<"0","1","2","3","4","5","6","7","8","9">>

IndexIn(c, alphabet) ==
    IF \E i \in 1..Len(alphabet) : alphabet[i] = c
    THEN CHOOSE i \in 1..Len(alphabet) : alphabet[i] = c
    ELSE 0

IsUpper(c) == IndexIn(c, UpperAlphabet) > 0

IsLower(c) == IndexIn(c, LowerAlphabet) > 0

IsDigit(c) == IndexIn(c, DigitChars) > 0

\* ord(c): the code point, which is what str comparison orders by
Ord(c) ==
    IF IsUpper(c) THEN 64 + IndexIn(c, UpperAlphabet)
    ELSE IF IsLower(c) THEN 96 + IndexIn(c, LowerAlphabet)
    ELSE IF IsDigit(c) THEN 47 + IndexIn(c, DigitChars)
    ELSE IF c = "\t" THEN 9
    ELSE IF c = "\n" THEN 10
    ELSE IF c = " " THEN 32
    ELSE IF c = "$" THEN 36
    ELSE IF c = "+" THEN 43
    ELSE IF c = "," THEN 44
    ELSE IF c = "-" THEN 45
    ELSE IF c = "." THEN 46
    ELSE IF c = EnDash THEN 8211
    ELSE IF c = EmDash THEN 8212
    ELSE 0

Max(S) == CHOOSE x \in S : \A y \in S : y <= x

Min(S) == CHOOSE x \in S : \A y \in S : x <= y

\* s[a:b] with 1-based inclusive bounds; a slice is cut to the sequence
Slice(s, a, b) ==
    LET lo == IF a < 1 THEN 1 ELSE a
        hi == IF b > Len(s) THEN Len(s) ELSE b
    IN  IF hi < lo THEN <<>> ELSE SubSeq(s, lo, hi)

\* s[:n]
Prefix(s, n) == Slice(s, 1, Min({n, Len(s)}))

\* s.upper() and s.lower()
UpperStr(s) ==
    [i \in 1..Len(s) |-> IF IsLower(s[i]) THEN UpperAlphabet[IndexIn(s[i], LowerAlphabet)]
                         ELSE s[i]]

LowerStr(s) ==
    [i \in 1..Len(s) |-> IF IsUpper(s[i]) THEN LowerAlphabet[IndexIn(s[i], UpperAlphabet)]
                         ELSE s[i]]

\* a <= b on str: lexicographic by code point, a proper prefix is smaller
RECURSIVE StrLe(_, _)
StrLe(a, b) ==
    IF a = <<>> THEN TRUE
    ELSE IF b = <<>> THEN FALSE
    ELSE IF Ord(Head(a)) < Ord(Head(b)) THEN TRUE
    ELSE IF Ord(Head(a)) > Ord(Head(b)) THEN FALSE
    ELSE StrLe(Tail(a), Tail(b))

\* s.split(ch): one more piece than there are separators
RECURSIVE SplitOn(_, _)
SplitOn(s, ch) ==
    IF \E i \in 1..Len(s) : s[i] = ch
    THEN LET i == Min({j \in 1..Len(s) : s[j] = ch})
         IN  <<Slice(s, 1, i - 1)>> \o SplitOn(Slice(s, i + 1, Len(s)), ch)
    ELSE <<s>>

\* s.strip()
Strip(s) ==
    LET keep == {i \in 1..Len(s) : s[i] \notin Whitespace}
    IN  IF keep = {} THEN <<>> ELSE Slice(s, Min(keep), Max(keep))

\* s.split(): the maximal runs of non-whitespace
RECURSIVE SplitWS(_)
SplitWS(s) ==
    LET keep == {i \in 1..Len(s) : s[i] \notin Whitespace}
    IN  IF keep = {} THEN <<>>
        ELSE LET a == Min(keep)
                 stops == {j \in a..Len(s) : s[j] \in Whitespace}
                 b == IF stops = {} THEN Len(s) ELSE Min(stops) - 1
             IN  <<Slice(s, a, b)>> \o SplitWS(Slice(s, b + 1, Len(s)))

\* s.replace(ch, '')
RemoveChar(s, ch) == SelectSeq(s, LAMBDA c : c # ch)

\* sub in s
Contains(s, sub) ==
    \E i \in 1..(Len(s) - Len(sub) + 1) : Slice(s, i, i + Len(sub) - 1) = sub

\* the concatenation of a sequence of sequences
RECURSIVE Flatten(_)
Flatten(ss) == IF ss = <<>> THEN <<>> ELSE Head(ss) \o Flatten(Tail(ss))

\* sep.join(parts)
RECURSIVE Join(_, _)
Join(parts, sep) ==
    IF parts = <<>> THEN <<>>
    ELSE IF Len(parts) = 1 THEN parts[1]
    ELSE parts[1] \o sep \o Join(Tail(parts), sep)

SP == <<" ">>

\* the words joined by single spaces
Words(toks) == Join(toks, SP)

\* the sequences over S of lo to hi elements
SeqsUpTo(S, lo, hi) == UNION {[1..n -> S] : n \in lo..hi}

(***************************************************************************)
(* Table Normalizer: the same loop opens parse_non_freight_rates and       *)
(* parse_freight_rates.                                                    *)
(***************************************************************************)
\* an off-by-one in the sub-row loop: range(max_lines - 1)
NormalizeRowShort(row) ==
    IF row = <<>> THEN <<>>
    ELSE LET cell_lines == [k \in 1..Len(row) |->
                               IF row[k] = None THEN << <<>> >> ELSE SplitOn(row[k], NL)]
             max_lines == Max({1} \cup {Len(cell_lines[k]) : k \in 1..Len(row)})
         IN  IF max_lines = 1 THEN <<row>>
             ELSE [line_idx \in 1..(max_lines - 1) |->
                      [k \in 1..Len(row) |->
                          IF line_idx <= Len(cell_lines[k])
                          THEN Strip(cell_lines[k][line_idx])
                          ELSE <<>>]]

\* the single-line shortcut dropped: every row is rebuilt from its split cells
NormalizeRowRebuild(row) ==
    IF row = <<>> THEN <<>>
    ELSE LET cell_lines == [k \in 1..Len(row) |->
                               IF row[k] = None THEN << <<>> >> ELSE SplitOn(row[k], NL)]
             max_lines == Max({1} \cup {Len(cell_lines[k]) : k \in 1..Len(row)})
         IN  [line_idx \in 1..max_lines |->
                 [k \in 1..Len(row) |->
                     IF line_idx <= Len(cell_lines[k])
                     THEN Strip(cell_lines[k][line_idx])
                     ELSE <<>>]]

\* the rows one raw row contributes
NormalizeRow(row) ==
    IF row = <<>> THEN <<>>
    ELSE LET cell_lines == [k \in 1..Len(row) |->
                               IF row[k] = None THEN << <<>> >> ELSE SplitOn(row[k], NL)]
             max_lines == Max({1} \cup {Len(cell_lines[k]) : k \in 1..Len(row)})
         IN  IF max_lines = 1 THEN <<row>>
             ELSE [line_idx \in 1..max_lines |->
                      [k \in 1..Len(row) |->
                          IF line_idx <= Len(cell_lines[k])
                          THEN Strip(cell_lines[k][line_idx])
                          ELSE <<>>]]

NormalizeTable(raw) == Flatten([r \in 1..Len(raw) |-> NormalizeRow(raw[r])])

\* the copy in parse_freight_rates
FreightNormalizeRow(row) ==
    IF row = <<>> THEN <<>>
    ELSE LET cell_lines == [k \in 1..Len(row) |->
                               IF row[k] = None THEN << <<>> >> ELSE SplitOn(row[k], NL)]
             max_lines == Max({1} \cup {Len(cell_lines[k]) : k \in 1..Len(row)})
         IN  IF max_lines = 1 THEN <<row>>
             ELSE [line_idx \in 1..max_lines |->
                      [k \in 1..Len(row) |->
                          IF line_idx <= Len(cell_lines[k])
                          THEN Strip(cell_lines[k][line_idx])
                          ELSE <<>>]]

FreightNormalizeTable(raw) == Flatten([r \in 1..Len(raw) |-> FreightNormalizeRow(raw[r])])

(***************************************************************************)
(* Dicts: a dict keeps its keys in insertion order; assigning to a key it  *)
(* already holds replaces the value in place.                              *)
(***************************************************************************)
DictKeys(d) == {d[i].key : i \in 1..Len(d)}

DictGet(d, k) == d[CHOOSE i \in 1..Len(d) : d[i].key = k].val

DictSet(d, k, v) ==
    IF k \in DictKeys(d)
    THEN [i \in 1..Len(d) |-> IF d[i].key = k THEN [key |-> k, val |-> v] ELSE d[i]]
    ELSE Append(d, [key |-> k, val |-> v])

(***************************************************************************)
(* int(): an optional sign and decimal digits.                             *)
(***************************************************************************)
RECURSIVE DigitsValue(_)
DigitsValue(ds) ==
    IF ds = <<>> THEN 0
    ELSE 10 * DigitsValue(Slice(ds, 1, Len(ds) - 1)) + (IndexIn(ds[Len(ds)], DigitChars) - 1)

AllDigits(s) == s # <<>> /\ \A i \in 1..Len(s) : IsDigit(s[i])

\* << >> for ValueError, else << the value >>
ParseInt(tok) ==
    IF AllDigits(tok) THEN <<DigitsValue(tok)>>
    ELSE IF tok # <<>> /\ tok[1] = "+" /\ AllDigits(Tail(tok)) THEN <<DigitsValue(Tail(tok))>>
    ELSE IF tok # <<>> /\ tok[1] = "-" /\ AllDigits(Tail(tok)) THEN <<0 - DigitsValue(Tail(tok))>>
    ELSE <<>>

(***************************************************************************)
(* Zone Index Builder: the postal code to zone mapping.                    *)
(***************************************************************************)
ZONE_CODES == [i \in 1..26 |-> <<"D", UpperAlphabet[i]>>]

DashChars == {EmDash, EnDash, "-"}

\* [A-Z]\d[A-Z] at position p
CodeAt(s, p) ==
    /\ p >= 1
    /\ p + 2 <= Len(s)
    /\ IsUpper(s[p])
    /\ IsDigit(s[p + 1])
    /\ IsUpper(s[p + 2])

\* the first position from q on that holds no whitespace (\s*)
SkipWS(s, q) == Min({j \in q..(Len(s) + 1) : j > Len(s) \/ s[j] \notin Whitespace})

\* range_pattern tried at position p: << >>, or the three groups and the match end
RangeMatchAt(s, p) ==
    IF ~CodeAt(s, p) THEN <<>>
    ELSE LET dash == SkipWS(s, p + 3)
         IN  IF dash > Len(s) \/ s[dash] \notin DashChars THEN <<>>
             ELSE LET second == SkipWS(s, dash + 1)
                  IN  IF ~CodeAt(s, second) THEN <<>>
                      ELSE LET zone == SkipWS(s, second + 3)
                           IN  IF /\ zone > second + 3
                                  /\ zone + 1 <= Len(s)
                                  /\ s[zone] = "D"
                                  /\ IsUpper(s[zone + 1])
                               THEN <<[start_postal |-> Slice(s, p, p + 2),
                                       end_postal   |-> Slice(s, second, second + 2),
                                       zone_code    |-> Slice(s, zone, zone + 1),
                                       stop         |-> zone + 2]>>
                               ELSE <<>>

\* range_pattern.finditer(text) from position p on, each match stored in the map
RECURSIVE RangeScan(_, _, _)
RangeScan(s, p, map) ==
    IF p > Len(s) THEN map
    ELSE LET m == RangeMatchAt(s, p)
         IN  IF m = <<>> THEN RangeScan(s, p + 1, map)
             ELSE RangeScan(s, m[1].stop,
                            DictSet(map, <<m[1].start_postal, m[1].end_postal>>, m[1].zone_code))

IsPostalToken(part) == Len(part) = 3 /\ CodeAt(part, 1)

IsZoneToken(part) == Len(part) = 2 /\ part[1] = "D" /\ IsUpper(part[2])

\* the token scan without the already_covered test
RECURSIVE PartsScanUncovered(_, _, _)
PartsScanUncovered(parts, i, map) ==
    IF i > Len(parts) THEN map
    ELSE IF /\ IsPostalToken(parts[i])
            /\ i + 1 <= Len(parts)
            /\ IsZoneToken(parts[i + 1])
         THEN IF i > 1 /\ parts[i - 1] \in {<<EmDash>>, <<EnDash>>, <<"-">>}
              THEN PartsScanUncovered(parts, i + 2, map)
              ELSE PartsScanUncovered(parts, i + 1,
                                      DictSet(map, <<parts[i], parts[i]>>, parts[i + 1]))
         ELSE PartsScanUncovered(parts, i + 1, map)

\* the while loop over the parts of one line, from index i (1-based) on
RECURSIVE PartsScan(_, _, _)
PartsScan(parts, i, map) ==
    IF i > Len(parts) THEN map
    ELSE IF /\ IsPostalToken(parts[i])
            /\ i + 1 <= Len(parts)
            /\ IsZoneToken(parts[i + 1])
         THEN IF i > 1 /\ parts[i - 1] \in {<<EmDash>>, <<EnDash>>, <<"-">>}
              THEN PartsScan(parts, i + 2, map)
              ELSE LET already_covered ==
                           \E k \in DictKeys(map) : k[1] = parts[i] /\ k[2] # parts[i]
                   IN  PartsScan(parts, i + 1,
                                 IF already_covered THEN map
                                 ELSE DictSet(map, <<parts[i], parts[i]>>, parts[i + 1]))
         ELSE PartsScan(parts, i + 1, map)

W_PostalCode == <<"P","o","s","t","a","l"," ","C","o","d","e">>

W_Zone == <<"Z","o","n","e">>

RECURSIVE LinesScan(_, _)
LinesScan(lines, map) ==
    IF lines = <<>> THEN map
    ELSE IF Contains(Head(lines), W_PostalCode) /\ Contains(Head(lines), W_Zone)
         THEN LinesScan(Tail(lines), map)
         ELSE LinesScan(Tail(lines), PartsScan(SplitWS(Head(lines)), 1, map))

\* parse_postal_code_to_zone_mapping on the text of the index page
ParsePostalCodeToZoneMapping(page_text) ==
    LinesScan(SplitOn(page_text, NL), RangeScan(page_text, 1, <<>>))

(***************************************************************************)
(* Zone Index Builder: the zone matrix.                                    *)
(***************************************************************************)
W_Origin == <<"O","r","i","g","i","n">>

W_Destination == <<"D","e","s","t","i","n","a","t","i","o","n">>

W_Legend == <<"D","A"," ","D","B"," ","D","C">>

\* str(cell) if cell else ''
CellText(cell) == IF cell = None THEN <<>> ELSE cell

\* max(tables, key=len): the first of the tables with the most rows
LargestTable(tables) ==
    tables[Min({i \in 1..Len(tables) :
                   \A j \in 1..Len(tables) : Len(tables[j]) <= Len(tables[i])})]

\* the int() values of a line's tokens; a token int() rejects is dropped
RECURSIVE IntValues(_)
IntValues(toks) ==
    IF toks = <<>> THEN <<>> ELSE ParseInt(Head(toks)) \o IntValues(Tail(toks))

\* every sub-line read against the first values line
RECURSIVE SubLinesScanFirstLine(_, _, _, _)
SubLinesScanFirstLine(origin_lines, values_lines, i, matrix) ==
    IF i > Len(origin_lines) THEN matrix
    ELSE LET origin_zone_ == Strip(origin_lines[i])
         IN  IF origin_zone_ \notin {ZONE_CODES[j] : j \in 1..Len(ZONE_CODES)}
                \/ i > Len(values_lines)
             THEN SubLinesScanFirstLine(origin_lines, values_lines, i + 1, matrix)
             ELSE LET values == IntValues(SplitWS(Strip(values_lines[1])))
                  IN  SubLinesScanFirstLine(origin_lines, values_lines, i + 1,
                          IF Len(values) = Len(ZONE_CODES)
                          THEN [k \in DOMAIN matrix \cup
                                      {<<origin_zone_, ZONE_CODES[j]>> : j \in 1..Len(ZONE_CODES)} |->
                                   IF k[1] = origin_zone_
                                   THEN values[CHOOSE j \in 1..Len(ZONE_CODES) : ZONE_CODES[j] = k[2]]
                                   ELSE matrix[k]]
                          ELSE matrix)

\* the entries the stacked sub-lines of one row write, from sub-line i on
RECURSIVE SubLinesScan(_, _, _, _)
SubLinesScan(origin_lines, values_lines, i, matrix) ==
    IF i > Len(origin_lines) THEN matrix
    ELSE LET origin_zone_ == Strip(origin_lines[i])
         IN  IF origin_zone_ \notin {ZONE_CODES[j] : j \in 1..Len(ZONE_CODES)}
                \/ i > Len(values_lines)
             THEN SubLinesScan(origin_lines, values_lines, i + 1, matrix)
             ELSE LET values == IntValues(SplitWS(Strip(values_lines[i])))
                  IN  SubLinesScan(origin_lines, values_lines, i + 1,
                          IF Len(values) = Len(ZONE_CODES)
                          THEN [k \in DOMAIN matrix \cup
                                      {<<origin_zone_, ZONE_CODES[j]>> : j \in 1..Len(ZONE_CODES)} |->
                                   IF k[1] = origin_zone_
                                   THEN values[CHOOSE j \in 1..Len(ZONE_CODES) : ZONE_CODES[j] = k[2]]
                                   ELSE matrix[k]]
                          ELSE matrix)

RECURSIVE MatrixRowsScan(_, _)
MatrixRowsScan(rows, matrix) ==
    IF rows = <<>> THEN matrix
    ELSE LET row == Head(rows)
         IN  IF Len(row) < 2 THEN MatrixRowsScan(Tail(rows), matrix)
             ELSE LET first_cell == CellText(row[1])
                      second_cell == CellText(row[2])
                      origin_cell == Strip(first_cell)
                      values_cell == Strip(second_cell)
                  IN  IF \/ Contains(first_cell, W_Origin)
                         \/ Contains(first_cell, W_Destination)
                         \/ Contains(second_cell, W_Legend)
                         \/ origin_cell = <<>>
                         \/ values_cell = <<>>
                      THEN MatrixRowsScan(Tail(rows), matrix)
                      ELSE MatrixRowsScan(Tail(rows),
                               SubLinesScan(SplitOn(origin_cell, NL),
                                            SplitOn(values_cell, NL), 1, matrix))

\* parse_zone_matrix on the tables of the matrix page
ParseZoneMatrix(tables) ==
    IF tables = <<>> THEN <<>>
    ELSE MatrixRowsScan(LargestTable(tables), <<>>)

(***************************************************************************)
(* Zone Resolver.                                                          *)
(***************************************************************************)
\* the bounds taken as exclusive
GetZoneCodeExclusive(postal_code, map) ==
    LET fsa == UpperStr(Prefix(postal_code, 3))
        hits == {i \in 1..Len(map) :
                    /\ StrLe(map[i].key[1], fsa) /\ map[i].key[1] # fsa
                    /\ StrLe(fsa, map[i].key[2]) /\ map[i].key[2] # fsa}
    IN  IF hits = {} THEN None ELSE map[Min(hits)].val

\* get_zone_code_for_postal: the first entry, in dict order, that brackets the prefix
GetZoneCodeForPostal(postal_code, map) ==
    LET fsa == UpperStr(Prefix(postal_code, 3))
        hits == {i \in 1..Len(map) : StrLe(map[i].key[1], fsa) /\ StrLe(fsa, map[i].key[2])}
    IN  IF hits = {} THEN None ELSE map[Min(hits)].val

\* (a, b) < (c, d) on tuples of str
KeyLess(k1, k2) ==
    \/ (k1[1] # k2[1] /\ StrLe(k1[1], k2[1]))
    \/ (k1[1] = k2[1] /\ k1[2] # k2[2] /\ StrLe(k1[2], k2[2]))

\* the items in the order of insertion, not sorted
InsertedItems(map) == map

\* sorted(postal_zone_map.items())
RECURSIVE SortedItems(_)
SortedItems(map) ==
    IF map = <<>> THEN <<>>
    ELSE LET i == CHOOSE i \in 1..Len(map) :
                      \A j \in 1..Len(map) : j = i \/ KeyLess(map[i].key, map[j].key)
         IN  <<map[i]>> \o SortedItems([j \in 1..(Len(map) - 1) |->
                                           IF j < i THEN map[j] ELSE map[j + 1]])

\* the matrix looked up as (destination, origin)
ZoneRowsSwapped(origin_zone_, map, matrix) ==
    LET items == SortedItems(map)
    IN  [i \in 1..Len(items) |->
            <<"Canada", "CA",
              IF <<items[i].val, origin_zone_>> \in DOMAIN matrix
              THEN matrix[<<items[i].val, origin_zone_>>]
              ELSE 16,
              "", items[i].key[1], items[i].key[2]>>]

\* the loop of generate_zones_data: one row per range, in sorted order
ZoneRows(origin_zone_, map, matrix) ==
    LET items == SortedItems(map)
    IN  [i \in 1..Len(items) |->
            <<"Canada", "CA",
              IF <<origin_zone_, items[i].val>> \in DOMAIN matrix
              THEN matrix[<<origin_zone_, items[i].val>>]
              ELSE 16,
              "", items[i].key[1], items[i].key[2]>>]

\* generate_zones_data
GenerateZonesData(origin_postal, map, matrix) ==
    LET origin_zone_ == GetZoneCodeForPostal(origin_postal, map)
    IN  IF origin_zone_ = None THEN <<>> ELSE ZoneRows(origin_zone_, map, matrix)

(***************************************************************************)
(* Money: a Decimal is its coefficient c and its count e of fraction       *)
(* digits, the value c / 10^e.                                             *)
(***************************************************************************)
RECURSIVE Pow10(_)
Pow10(n) == IF n <= 0 THEN 1 ELSE 10 * Pow10(n - 1)

Abs(n) == IF n < 0 THEN 0 - n ELSE n

\* str(n) for n >= 0
RECURSIVE NumStr(_)
NumStr(n) ==
    IF n < 10 THEN <<DigitChars[n + 1]>>
    ELSE NumStr(n \div 10) \o <<DigitChars[(n % 10) + 1]>>

\* the text of the amount c / 10^e, e > 0, as a rate sheet prints it
AmountStr(c, e) ==
    NumStr(c \div Pow10(e)) \o <<".">> \o
        [i \in 1..e |-> DigitChars[((c \div Pow10(e - i)) % 10) + 1]]

\* Decimal(cleaned): << >> for InvalidOperation, else << the value >>
DecimalOf(tok) ==
    LET signed == tok # <<>> /\ tok[1] \in {"+", "-"}
        body   == IF signed THEN Tail(tok) ELSE tok
        dots   == {i \in 1..Len(body) : body[i] = "."}
        digits == RemoveChar(body, ".")
    IN  IF Cardinality(dots) > 1 \/ ~AllDigits(digits) THEN <<>>
        ELSE <<[c |-> IF signed /\ tok[1] = "-" THEN 0 - DigitsValue(digits)
                      ELSE DigitsValue(digits),
                e |-> IF dots = {} THEN 0 ELSE Len(body) - Max(dots)]>>

\* Decimal(weight) * rate
DecTimes(weight, d) == [c |-> weight * d.c, e |-> d.e]

\* a < b
DecLess(a, b) == a.c * Pow10(b.e) < b.c * Pow10(a.e)

\* max(a, b): the first of two equal values
DecMax(a, b) == IF DecLess(a, b) THEN b ELSE a

\* the rounding left at the context default, ROUND_HALF_EVEN
QuantizeHalfEven(d) ==
    IF d.e <= 2 THEN [c |-> d.c * Pow10(2 - d.e), e |-> 2]
    ELSE LET m == Pow10(d.e - 2)
             q == Abs(d.c) \div m
             r == Abs(d.c) % m
             up == IF 2 * r > m \/ (2 * r = m /\ q % 2 = 1) THEN q + 1 ELSE q
         IN  [c |-> IF d.c < 0 THEN 0 - up ELSE up, e |-> 2]

\* d.quantize(Decimal('0.01'), rounding=ROUND_HALF_UP)
Quantize(d) ==
    IF d.e <= 2 THEN [c |-> d.c * Pow10(2 - d.e), e |-> 2]
    ELSE LET m == Pow10(d.e - 2)
             q == Abs(d.c) \div m
             r == Abs(d.c) % m
             up == IF 2 * r >= m THEN q + 1 ELSE q
         IN  [c |-> IF d.c < 0 THEN 0 - up ELSE up, e |-> 2]

(***************************************************************************)
(* Cell parsers shared by the two builders.                                *)
(***************************************************************************)
\* clean_rate: << >> for None
CleanRate(value) ==
    IF value = None THEN <<>>
    ELSE LET cleaned == Strip(RemoveChar(RemoveChar(RemoveChar(value, "$"), ","), " "))
         IN  IF cleaned = <<>> \/ cleaned = <<EmDash>> \/ cleaned = <<"-">> THEN <<>>
             ELSE DecimalOf(cleaned)

RECURSIVE CleanRates(_)
CleanRates(parts) ==
    IF parts = <<>> THEN <<>> ELSE CleanRate(Head(parts)) \o CleanRates(Tail(parts))

\* parse_rates_line: the rates of the tokens clean_rate accepts, in order
ParseRatesLine(rates_text) ==
    IF rates_text = <<>> THEN <<>>
    ELSE CleanRates(SplitWS(RemoveChar(rates_text, "$")))

RECURSIVE ZoneNumbers(_)
ZoneNumbers(parts) ==
    IF parts = <<>> THEN <<>>
    ELSE LET v == ParseInt(Head(parts))
         IN  (IF v # <<>> /\ 1 <= v[1] /\ v[1] <= 16 THEN v ELSE <<>>)
                 \o ZoneNumbers(Tail(parts))

\* parse_zone_numbers
ParseZoneNumbers(header_text) ==
    IF header_text = None \/ header_text = <<>> THEN <<>>
    ELSE ZoneNumbers(SplitWS(header_text))

\* the bare-integer branch left out: only "<N> lb" labels give a weight
ParseWeightLbOnly(line_) ==
    LET line == Strip(line_)
    IN  IF line = <<>> THEN <<>>
        ELSE LET nondigit == {i \in 1..Len(line) : ~IsDigit(line[i])}
                 digits == IF nondigit = {} THEN line ELSE Slice(line, 1, Min(nondigit) - 1)
                 unit == SkipWS(line, Len(digits) + 1)
             IN  IF /\ digits # <<>>
                    /\ unit + 1 <= Len(line)
                    /\ line[unit] = "l"
                    /\ line[unit + 1] = "b"
                 THEN <<DigitsValue(digits)>>
                 ELSE <<>>

\* parse_weight_from_line: << >> for None
ParseWeightFromLine(line_) ==
    LET line == Strip(line_)
    IN  IF line = <<>> THEN <<>>
        ELSE LET nondigit == {i \in 1..Len(line) : ~IsDigit(line[i])}
                 digits == IF nondigit = {} THEN line ELSE Slice(line, 1, Min(nondigit) - 1)
                 unit == SkipWS(line, Len(digits) + 1)
             IN  \* re.match(r'(\d+)\s*lbs?\.?', line)
                 IF /\ digits # <<>>
                    /\ unit + 1 <= Len(line)
                    /\ line[unit] = "l"
                    /\ line[unit + 1] = "b"
                 THEN <<DigitsValue(digits)>>
                 ELSE LET weight == ParseInt(SplitWS(line)[1])
                      IN  IF weight # <<>> /\ 1 <= weight[1] /\ weight[1] <= 2000
                          THEN weight
                          ELSE <<>>

\* str(cell).strip() if cell else ''
StrippedCell(cell) == IF cell = None THEN <<>> ELSE Strip(cell)

\* d[zones[i]] = values[i] for every i from i on
RECURSIVE SetZones(_, _, _, _)
SetZones(d, zones, values, i) ==
    IF i > Len(zones) \/ i > Len(values) THEN d
    ELSE SetZones([z \in DOMAIN d \cup {zones[i]} |-> IF z = zones[i] THEN values[i] ELSE d[z]],
                  zones, values, i + 1)

(***************************************************************************)
(* Flat-Rate Table Builder: parse_non_freight_rates.  The builder's state  *)
(* is the record of its two dicts, rates and per_pound_rates.              *)
(***************************************************************************)
W_weight == <<"w","e","i","g","h","t">>

W_zone == <<"z","o","n","e">>

W_envelope == <<"e","n","v","e","l","o","p","e">>

W_pak == <<"p","a","k">>

W_100_lbs == <<"1","0","0"," ","l","b","s">>

W_100lbs == <<"1","0","0","l","b","s">>

\* the zone header: the first cell, in the first 5 rows, with 7 zone numbers or more
FindZones(table_) ==
    LET width == Max({0} \cup {Len(table_[r]) : r \in 1..Len(table_)})
        found == {rk \in (1..Min({5, Len(table_)})) \X (1..width) :
                     /\ rk[2] <= Len(table_[rk[1]])
                     /\ Len(ParseZoneNumbers(table_[rk[1]][rk[2]])) >= 7}
    IN  IF found = {} THEN <<>>
        ELSE LET r == Min({rk[1] : rk \in found})
                 k == Min({rk[2] : rk \in {x \in found : x[1] = r}})
             IN  ParseZoneNumbers(table_[r][k])

\* one row of a table whose zone header is zones
FlatRow(row, zones, st) ==
    IF Len(row) < 2 THEN st
    ELSE LET weight_cell == StrippedCell(row[1])
             rates_cell  == StrippedCell(row[2])
             label       == LowerStr(weight_cell)
         IN  IF \/ Contains(label, W_weight) \/ Contains(label, W_zone)
                \/ Contains(label, W_envelope) \/ Contains(label, W_pak)
             THEN st
             ELSE IF Contains(label, W_100_lbs) \/ Contains(RemoveChar(label, " "), W_100lbs)
             THEN LET rate_values == ParseRatesLine(rates_cell)
                  IN  IF Len(rate_values) = Len(zones)
                      THEN [st EXCEPT !.per_pound_rates = SetZones(@, zones, rate_values, 1)]
                      ELSE st
             ELSE LET weight == ParseWeightFromLine(weight_cell)
                      rate_values == ParseRatesLine(rates_cell)
                  IN  IF weight = <<>> \/ weight[1] < 1 \/ weight[1] > 99 \/ rate_values = <<>>
                      THEN st
                      ELSE [st EXCEPT !.rates =
                               [w \in DOMAIN @ \cup {weight[1]} |->
                                   IF w = weight[1]
                                   THEN SetZones(IF w \in DOMAIN @ THEN @[w] ELSE <<>>,
                                                 zones, rate_values, 1)
                                   ELSE @[w]]]

RECURSIVE FlatRows(_, _, _)
FlatRows(rows, zones, st) ==
    IF rows = <<>> THEN st ELSE FlatRows(Tail(rows), zones, FlatRow(Head(rows), zones, st))

\* a weight the table prices has its whole row replaced, not merged
FlatTableRowWise(raw, st) ==
    LET table_ == NormalizeTable(raw)
        zones == IF table_ = <<>> THEN <<>> ELSE FindZones(table_)
        new == FlatRows(table_, zones, [rates |-> <<>>, per_pound_rates |-> st.per_pound_rates])
    IN  IF zones = <<>> THEN st
        ELSE [rates |-> [w \in DOMAIN st.rates \cup DOMAIN new.rates |->
                            IF w \in DOMAIN new.rates THEN new.rates[w] ELSE st.rates[w]],
              per_pound_rates |-> new.per_pound_rates]

\* the body of the loop over a page's raw tables
FlatTable(raw, st) ==
    LET table_ == NormalizeTable(raw)
        zones == IF table_ = <<>> THEN <<>> ELSE FindZones(table_)
    IN  IF zones = <<>> THEN st ELSE FlatRows(table_, zones, st)

RECURSIVE FlatTables(_, _)
FlatTables(raws, st) ==
    IF raws = <<>> THEN st ELSE FlatTables(Tail(raws), FlatTable(Head(raws), st))

\* the band taken from weight 1 on
FlatSynthesisFromOne(st) ==
    [w \in DOMAIN st.rates \cup 1..150 |->
        IF w \in 1..150
        THEN [zone \in DOMAIN st.per_pound_rates \cap 1..16 |->
                 Quantize(DecTimes(w, st.per_pound_rates[zone]))]
        ELSE st.rates[w]]

\* the loop over weights 100..150 after the scan
FlatSynthesis(st) ==
    [w \in DOMAIN st.rates \cup 100..150 |->
        IF w \in 100..150
        THEN [zone \in DOMAIN st.per_pound_rates \cap 1..16 |->
                 Quantize(DecTimes(w, st.per_pound_rates[zone]))]
        ELSE st.rates[w]]

\* the tables of pages start_page..end_page (0-based), in page then table order
SpanTables(pages, start_page, end_page) ==
    Flatten([i \in 1..(end_page - start_page + 1) |-> pages[start_page + i].tables])

FlatStart == [rates |-> <<>>, per_pound_rates |-> <<>>]

\* parse_non_freight_rates: pdf.pages[i] raises IndexError when the span leaves
\* the document
ParseNonFreightRates(pages, start_page, end_page) ==
    IF end_page + 1 > Len(pages)
    THEN [raised |-> "IndexError", rates |-> <<>>]
    ELSE [raised |-> "",
          rates |-> FlatSynthesis(FlatTables(SpanTables(pages, start_page, end_page), FlatStart))]

(***************************************************************************)
(* Tiered/Freight Rate Table Builder: parse_freight_rates.  The builder's  *)
(* state is the record of per_pound_rates (bracket -> zone -> rate) and    *)
(* minimum_charges (zone -> charge).                                       *)
(***************************************************************************)
W_to == <<" ","t","o"," ">>

\* the brackets dict, in its order
BRACKETS ==
    << [name |-> NumStr(151) \o W_to \o NumStr(299), key |-> <<151, 299>>],
       [name |-> NumStr(300) \o W_to \o NumStr(499), key |-> <<300, 499>>],
       [name |-> NumStr(500) \o W_to \o NumStr(999), key |-> <<500, 999>>],
       [name |-> NumStr(1000) \o W_to \o NumStr(1999), key |-> <<1000, 1999>>],
       [name |-> NumStr(1000) \o <<" ","t","o">> \o NumStr(1999), key |-> <<1000, 1999>>],
       [name |-> NumStr(2000) \o <<" ","o","r"," ","m","o","r","e">>, key |-> <<2000, 2000>>] >>

W_minimum == <<"m","i","n","i","m","u","m">>

Squeeze(s) == RemoveChar(LowerStr(s), " ")

\* one row of a freight table; fs.zones is the page's zone header, << >> until found
FreightRow(row, fs) ==
    IF Len(row) < 2 THEN fs
    ELSE LET weight_cell == StrippedCell(row[1])
             rates_cell  == StrippedCell(row[2])
             found_zones == ParseZoneNumbers(rates_cell)
         IN  IF fs.zones = <<>> /\ Len(found_zones) >= 7
             THEN [fs EXCEPT !.zones = found_zones]
             ELSE IF fs.zones = <<>> THEN fs
             ELSE IF Contains(LowerStr(weight_cell), W_minimum)
             THEN LET rate_values == ParseRatesLine(rates_cell)
                  IN  IF Len(rate_values) = Len(fs.zones)
                      THEN [fs EXCEPT !.minimum_charges = SetZones(@, fs.zones, rate_values, 1)]
                      ELSE fs
             ELSE LET hits == {b \in 1..Len(BRACKETS) :
                                  Contains(Squeeze(weight_cell), Squeeze(BRACKETS[b].name))}
                      rate_values == ParseRatesLine(rates_cell)
                  IN  IF hits = {} \/ Len(rate_values) # Len(fs.zones) THEN fs
                      ELSE LET bracket_key == BRACKETS[Min(hits)].key
                           IN  [fs EXCEPT !.per_pound_rates =
                                   [k \in DOMAIN @ \cup {bracket_key} |->
                                       IF k = bracket_key
                                       THEN SetZones(IF k \in DOMAIN @ THEN @[k] ELSE <<>>,
                                                     fs.zones, rate_values, 1)
                                       ELSE @[k]]]

RECURSIVE FreightRows(_, _)
FreightRows(rows, fs) ==
    IF rows = <<>> THEN fs ELSE FreightRows(Tail(rows), FreightRow(Head(rows), fs))

\* the body of the loop over the pages: only the page's first table is read
FreightPage(tables, st) ==
    IF tables = <<>> THEN st
    ELSE LET fs == FreightRows(FreightNormalizeTable(tables[1]),
                               [zones |-> <<>>,
                                per_pound_rates |-> st.per_pound_rates,
                                minimum_charges |-> st.minimum_charges])
         IN  [per_pound_rates |-> fs.per_pound_rates, minimum_charges |-> fs.minimum_charges]

RECURSIVE FreightPages(_, _)
FreightPages(pages, st) ==
    IF pages = <<>> THEN st ELSE FreightPages(Tail(pages), FreightPage(Head(pages).tables, st))

\* the if/elif chain that assigns a weight its bracket key
BracketOf(weight) ==
    IF weight <= 299 THEN <<151, 299>>
    ELSE IF weight <= 499 THEN <<300, 499>>
    ELSE IF weight <= 999 THEN <<500, 999>>
    ELSE IF weight <= 1999 THEN <<1000, 1999>>
    ELSE <<2000, 2000>>

\* the minimum charge left out
FreightPriceNoFloor(weight, per_lb_rate, zone, minimum) == Quantize(DecTimes(weight, per_lb_rate))

\* the price of one cell
FreightPrice(weight, per_lb_rate, zone, minimum) ==
    LET calculated_rate == Quantize(DecTimes(weight, per_lb_rate))
    IN  IF zone \in DOMAIN minimum THEN DecMax(calculated_rate, minimum[zone])
        ELSE calculated_rate

\* a zone without a per-pound rate priced at its minimum charge
FreightExpansionFloored(st) ==
    [weight \in 151..2000 |->
        LET bracket_key == BracketOf(weight)
            rated == IF bracket_key \in DOMAIN st.per_pound_rates
                     THEN DOMAIN st.per_pound_rates[bracket_key] \cap 1..16
                     ELSE {}
        IN  [zone \in rated \cup (DOMAIN st.minimum_charges \cap 1..16) |->
                IF zone \in rated
                THEN FreightPrice(weight, st.per_pound_rates[bracket_key][zone], zone,
                                  st.minimum_charges)
                ELSE st.minimum_charges[zone]]]

\* the loop over weights 151..2000 after the pages
FreightExpansion(st) ==
    [weight \in 151..2000 |->
        LET bracket_key == BracketOf(weight)
        IN  IF bracket_key \notin DOMAIN st.per_pound_rates THEN <<>>
            ELSE [zone \in DOMAIN st.per_pound_rates[bracket_key] \cap 1..16 |->
                     FreightPrice(weight, st.per_pound_rates[bracket_key][zone], zone,
                                  st.minimum_charges)]]

FreightStart == [per_pound_rates |-> <<>>, minimum_charges |-> <<>>]

\* parse_freight_rates: pdf.pages[i] raises IndexError when the span leaves the
\* document
ParseFreightRates(pages, start_page, end_page) ==
    IF end_page + 1 > Len(pages)
    THEN [raised |-> "IndexError", rates |-> <<>>]
    ELSE [raised |-> "",
          rates |-> FreightExpansion(
                        FreightPages(Slice(pages, start_page + 1, end_page + 1), FreightStart))]

(***************************************************************************)
(* Service Locator: detect_service_pages.  Page numbers are 0-based, as    *)
(* in the source; page i is pages[i + 1].                                  *)
(***************************************************************************)
W_FedEx == <<"F","e","d","E","x">>

W_Overnight == <<"O","v","e","r","n","i","g","h","t">>

W_Rates == <<"R","a","t","e","s">>

SERVICE_DEFINITIONS ==
    << [name |-> "FedEx First Overnight",
        search |-> Words(<<W_FedEx, <<"F","i","r","s","t">>, W_Overnight>>),
        page_count |-> 4, is_freight |-> FALSE],
       [name |-> "FedEx Priority Overnight",
        search |-> Words(<<W_FedEx, <<"P","r","i","o","r","i","t","y">>, W_Overnight>>),
        page_count |-> 4, is_freight |-> FALSE],
       [name |-> "FedEx Standard Overnight",
        search |-> Words(<<W_FedEx, <<"S","t","a","n","d","a","r","d">>, W_Overnight>>),
        page_count |-> 4, is_freight |-> FALSE],
       [name |-> "FedEx 2Day",
        search |-> Words(<<W_FedEx, <<"2","D","a","y">>>>),
        page_count |-> 4, is_freight |-> FALSE],
       [name |-> "FedEx Economy",
        search |-> Words(<<W_FedEx, <<"E","c","o","n","o","m","y">>>>),
        page_count |-> 4, is_freight |-> FALSE],
       [name |-> "FedEx 1Day Freight",
        search |-> Words(<<W_FedEx, <<"1","D","a","y">>>>),
        page_count |-> 2, is_freight |-> TRUE] >>

\* the title test on one page: the search term and "Rates" in one of the first 5 lines
TitleFound(page_text, search_term) ==
    LET lines == SplitOn(page_text, NL)
    IN  \E l \in 1..Min({5, Len(lines)}) :
           Contains(lines[l], search_term) /\ Contains(lines[l], W_Rates)

AlreadyAssigned(i, found) ==
    \E n \in 1..Len(found) : found[n].pages[1] <= i /\ i <= found[n].pages[2]

\* the claimed spans are not consulted
StartPageUnclaimed(service_def, pages, found) ==
    LET hits == {i \in 0..(Len(pages) - 1) : TitleFound(pages[i + 1].text, service_def.search)}
    IN  IF hits = {} THEN <<>> ELSE <<Min(hits)>>

\* start_page of one service: << >> for None
StartPage(service_def, pages, found) ==
    LET hits == {i \in 0..(Len(pages) - 1) :
                    /\ TitleFound(pages[i + 1].text, service_def.search)
                    /\ ~AlreadyAssigned(i, found)}
    IN  IF hits = {} THEN <<>> ELSE <<Min(hits)>>

\* the end page taken one page too far: start_page + page_count
DetectServiceLongSpan(service_def, pages, found) ==
    LET start_page == StartPage(service_def, pages, found)
    IN  IF start_page = <<>> THEN found
        ELSE Append(found, [name |-> service_def.name,
                            pages |-> <<start_page[1], start_page[1] + service_def.page_count>>,
                            is_freight |-> service_def.is_freight])

\* one turn of the loop over SERVICE_DEFINITIONS
DetectService(service_def, pages, found) ==
    LET start_page == StartPage(service_def, pages, found)
    IN  IF start_page = <<>> THEN found
        ELSE Append(found, [name |-> service_def.name,
                            pages |-> <<start_page[1], start_page[1] + service_def.page_count - 1>>,
                            is_freight |-> service_def.is_freight])

RECURSIVE DetectFrom(_, _, _)
DetectFrom(d, pages, found) ==
    IF d > Len(SERVICE_DEFINITIONS) THEN found
    ELSE DetectFrom(d + 1, pages, DetectService(SERVICE_DEFINITIONS[d], pages, found))

\* detect_service_pages
DetectServicePages(pages) == DetectFrom(1, pages, <<>>)

(***************************************************************************)
(* Zone index pages: find_zone_index_pages.                                *)
(***************************************************************************)
W_Index == <<"I","n","d","e","x">>

W_PostalCodeZoneIndex == Words(<<W_PostalCode, W_Zone, W_Index>>)

W_IntraCanadaZoneIndex ==
    Words(<<<<"I","n","t","r","a","-","C","a","n","a","d","a">>, W_Zone, W_Index>>)

\* the first page whose text holds the marker: << >> for None
MarkerPage(pages, marker) ==
    LET hits == {i \in 0..(Len(pages) - 1) : Contains(pages[i + 1].text, marker)}
    IN  IF hits = {} THEN <<>> ELSE <<Min(hits)>>

(***************************************************************************)
(* US zone locator parser: process_us_zone_pdf of fedex_rate_tool.py and   *)
(* process_pdf of parse_fedex_zones.py, which are the same code.  A        *)
(* document is the sequence of its pages' texts.                           *)
(***************************************************************************)
\* extract_text_from_pdf: the page texts put end to end
ExtractTextFromPdf(doc) == Flatten(doc)

\* n digits from position i on
DigitsAt(s, i, n) == i >= 1 /\ i + n - 1 <= Len(s) /\ \A k \in 0..(n - 1) : IsDigit(s[i + k])

\* sub at position i of s
StartsAt(s, i, sub) == i >= 1 /\ i + Len(sub) - 1 <= Len(s) /\ Slice(s, i, i + Len(sub) - 1) = sub

\* \d{5}(?:-\d{5})? at position i: the last position of the match, 0 for none
ZipEnd(s, i) ==
    IF ~DigitsAt(s, i, 5) THEN 0
    ELSE IF StartsAt(s, i + 5, <<"-">>) /\ DigitsAt(s, i + 6, 5) THEN i + 10
    ELSE i + 4

\* (\d+|NA|\*) at position j: the last position of the match, 0 for none
ZoneTokenEnd(s, j) ==
    IF j > Len(s) THEN 0
    ELSE IF IsDigit(s[j])
    THEN Min({e \in j..Len(s) : e = Len(s) \/ ~IsDigit(s[e + 1])})
    ELSE IF StartsAt(s, j, <<"N","A">>) THEN j + 1
    ELSE IF s[j] = "*" THEN j
    ELSE 0

\* \s+ from position q on: the position after the run, 0 when there is no run
AfterSpaces(s, q) == IF q <= Len(s) /\ s[q] \in Whitespace THEN SkipWS(s, q) ELSE 0

\* (\d{5}(?:-\d{5})?)\s+(\d+|NA|\*) at position i: << >> or the groups and the end
PairMatchAt(s, i) ==
    LET e == ZipEnd(s, i)
        j == IF e = 0 THEN 0 ELSE AfterSpaces(s, e + 1)
        t == IF j = 0 THEN 0 ELSE ZoneTokenEnd(s, j)
    IN  IF t = 0 THEN <<>>
        ELSE <<[zip_range |-> Slice(s, i, e), zone |-> Slice(s, j, t), end |-> t]>>

\* a second zone column after the pair m, its token sought at position j
SecondZoneAt(s, m, j) ==
    IF j = 0 \/ ZoneTokenEnd(s, j) = 0 THEN <<>>
    ELSE <<[zip_range |-> m.zip_range, zone |-> m.zone, end |-> ZoneTokenEnd(s, j)]>>

SecondZoneAfter(s, ms) ==
    IF ms = <<>> THEN <<>> ELSE SecondZoneAt(s, ms[1], AfterSpaces(s, ms[1].end + 1))

\* (\d{5}(?:-\d{5})?)\s+(\d+|NA|\*)\s+(\d+|NA|\*) at position i
TripleMatchAt(s, i) == SecondZoneAfter(s, PairMatchAt(s, i))

\* re.findall: the matches from left to right, none overlapping
RECURSIVE FindAllPairs(_, _)
FindAllPairs(s, i) ==
    IF i > Len(s) THEN <<>>
    ELSE LET m == PairMatchAt(s, i)
         IN  IF m = <<>> THEN FindAllPairs(s, i + 1)
             ELSE <<<<m[1].zip_range, m[1].zone>>>> \o FindAllPairs(s, m[1].end + 1)

RECURSIVE FindAllTriples(_, _)
FindAllTriples(s, i) ==
    IF i > Len(s) THEN <<>>
    ELSE LET m == TripleMatchAt(s, i)
         IN  IF m = <<>> THEN FindAllTriples(s, i + 1)
             ELSE <<<<m[1].zip_range, m[1].zone>>>> \o FindAllTriples(s, m[1].end + 1)

W_contiguous_us == <<"c","o","n","t","i","g","u","o","u","s"," ","u",".","s",".">>

W_alaska == <<"a","l","a","s","k","a",",">>

W_hawaii == <<"h","a","w","a","i","i">>

\* Alaska,\s*Hawaii at position q, letters of either case: the position after it, 0 for none
AlaskaHawaiiEnd(low, q) ==
    IF ~StartsAt(low, q, W_alaska) THEN 0
    ELSE LET h == SkipWS(low, q + Len(W_alaska))
         IN  IF StartsAt(low, h, W_hawaii) THEN h + Len(W_hawaii) ELSE 0

\* parse_contiguous_us: the pairs between the first "Contiguous U.S." and the
\* first "Alaska, Hawaii" after it
ParseContiguousUs(text_) ==
    LET low == LowerStr(text_)
        starts == {p \in 1..Len(low) : StartsAt(low, p, W_contiguous_us)}
        p0 == IF starts = {} THEN 0 ELSE Min(starts) + Len(W_contiguous_us)
        stops == {q \in p0..Len(low) : p0 > 0 /\ AlaskaHawaiiEnd(low, q) > 0}
    IN  IF stops = {} THEN <<>>
        ELSE FindAllPairs(Slice(text_, p0, Min(stops) - 1), 1)

\* a word sought at position q: the position after it; 0 for none, or when q is 0
WordEnd(low, q, word) == IF q > 0 /\ StartsAt(low, q, word) THEN q + Len(word) ELSE 0

\* ,? at position q
CommaEnd(low, q) == IF q > 0 /\ StartsAt(low, q, <<",">>) THEN q + 1 ELSE q

\* \s* at position q
SpacesEnd(low, q) == IF q = 0 THEN 0 ELSE SkipWS(low, q)

\* Alaska,\s*Hawaii,?\s*and\s*Puerto\s*Rico at position q: the position after it, 0 for none
AlaskaHeadingEnd(low, q) ==
    WordEnd(low,
            SpacesEnd(low,
                WordEnd(low,
                        SpacesEnd(low,
                            WordEnd(low,
                                    SpacesEnd(low, CommaEnd(low, AlaskaHawaiiEnd(low, q))),
                                    <<"a","n","d">>)),
                        <<"p","u","e","r","t","o">>)),
            <<"r","i","c","o">>)

\* parse_alaska_hawaii_pr: the triples after the first heading, up to the end
\* of the text or its closing line break; the second zone is dropped
ParseAlaskaHawaiiPr(text_) ==
    LET low == LowerStr(text_)
        heads == {q \in 1..Len(low) : AlaskaHeadingEnd(low, q) > 0}
        last == IF text_ # <<>> /\ text_[Len(text_)] = NL THEN Len(text_) - 1 ELSE Len(text_)
    IN  IF heads = {} THEN <<>>
        ELSE FindAllTriples(Slice(text_, AlaskaHeadingEnd(low, Min(heads)), last), 1)

\* split_zip_range
SplitZipRange(zip_range) ==
    IF Contains(zip_range, <<"-">>)
    THEN <<Strip(SplitOn(zip_range, "-")[1]), Strip(SplitOn(zip_range, "-")[2])>>
    ELSE <<Strip(zip_range), Strip(zip_range)>>

\* normalize_zone
NormalizeZone(zone) ==
    IF UpperStr(zone) = <<"N","A">> \/ zone = <<"*">> THEN <<>> ELSE zone

W_fedex == <<"f","e","d","e","x">>

\* validate_fedex_pdf
ValidateFedexPdf(text_) ==
    LET has_fedex == Contains(LowerStr(text_), W_fedex)
        has_zone == Contains(LowerStr(text_), W_zone)
        \* \d{5}(?:-\d{5})?\s+\d+
        has_zip_data ==
            \E i \in 1..Len(text_) :
                /\ ZipEnd(text_, i) > 0
                /\ AfterSpaces(text_, ZipEnd(text_, i) + 1) > 0
                /\ DigitsAt(text_, AfterSpaces(text_, ZipEnd(text_, i) + 1), 1)
    IN  has_fedex /\ has_zone /\ has_zip_data

\* the rows built from all_data
UsZoneRows(all_data) ==
    {<<SplitZipRange(all_data[n][1])[1], SplitZipRange(all_data[n][1])[2],
       NormalizeZone(all_data[n][2])>> : n \in 1..Len(all_data)}

\* process_us_zone_pdf after the validation of the text
UsZoneSheet(contiguous_data, alaska_data) ==
    IF contiguous_data = <<>> /\ alaska_data = <<>>
    THEN [raised |-> "ValueError", rows |-> {}]
    ELSE [raised |-> "", rows |-> UsZoneRows(contiguous_data \o alaska_data)]

\* process_us_zone_pdf: the exception it raises, or the rows of the sheet it
\* writes.  The sheet holds the rows in the order of their start codes; rows
\* are kept here as a set.
ProcessUsZonePdf(doc) ==
    IF ~ValidateFedexPdf(ExtractTextFromPdf(doc))
    THEN [raised |-> "ValueError", rows |-> {}]
    ELSE UsZoneSheet(ParseContiguousUs(ExtractTextFromPdf(doc)),
                     ParseAlaskaHawaiiPr(ExtractTextFromPdf(doc)))

(***************************************************************************)
(* Range search: find_all_ranges of find_pdf_ranges.py; the loops of       *)
(* find_ranges_fast.py and find_ranges_concurrent.py are the same.  A      *)
(* probe of a URL answers True or False (an exception counts as False);    *)
(* exists is the set of increments whose probe answers True.               *)
(***************************************************************************)
\* range(100, 1100, 100)
INCREMENTS == {100 * k : k \in 1..10}

\* find_next_range: << >> for None, else the range of the first increment that exists
FindNextRange(lower_bound, exists) ==
    IF exists = {} THEN <<>>
    ELSE <<[lower |-> lower_bound, upper |-> lower_bound + Min(exists) - 1]>>

\* the search goes on at the upper bound itself
AfterRangeAtUpper(result) == result.upper

\* current_lower = upper + 1
AfterRange(result) == result.upper + 1

\* current_lower += 100
AfterMiss(lower_bound) == lower_bound + 100

(***************************************************************************)
(* Workbook Writer: write_ca_excel.  A sheet is its title and its data     *)
(* rows; the rows of a rate sheet are keyed by weight and are laid out in  *)
(* ascending weight from row 4 on, one column per zone 1..16.  float() of  *)
(* an amount in cents is the double nearest to it, which identifies the    *)
(* amount, so a cell keeps the Decimal.  Every catalog name is shorter     *)
(* than the 31 characters a sheet title may have.                          *)
(***************************************************************************)
ZonesSheet(data) == [title |-> "Zones", rows |-> data]

RateSheet(entry) ==
    LET weight_range == IF entry.is_freight THEN 151..2000 ELSE 1..150
        weights == {w \in weight_range : w \in DOMAIN entry.rates}
    IN  [title |-> entry.name,
         rows |-> [w \in weights |->
                      [z \in {zone \in 1..16 : zone \in DOMAIN entry.rates[w]} |->
                          entry.rates[w][z]]]]

WriteCaExcel(data, zones) ==
    (IF zones # None /\ zones # <<>> THEN <<ZonesSheet(zones)>> ELSE <<>>)
        \o [n \in 1..Len(data) |-> RateSheet(data[n])]

(***************************************************************************)
(* Zone index runs: the text of a postal index page and the tables of a    *)
(* matrix page are parsed, then the zone dataset is generated for an       *)
(* origin.                                                                 *)
(***************************************************************************)
W_M5V == <<"M","5","V">>

W_M5W == <<"M","5","W">>

W_M5Z == <<"M","5","Z">>

W_DA == <<"D","A">>

W_DB == <<"D","B">>

RangeLine(a, sep, b, z) == a \o sep \o b \o SP \o z

SampleLines ==
    { RangeLine(W_M5V, <<EnDash>>, W_M5Z, W_DA),
      RangeLine(W_M5V, <<EnDash>>, W_M5Z, W_DB),
      RangeLine(W_M5V, <<" ", "-", " ">>, W_M5W, W_DA),
      RangeLine(W_M5W, <<"-">>, W_M5W, W_DB),
      RangeLine(W_M5W, <<EmDash>>, W_M5Z, W_DB),
      RangeLine(W_M5V, <<"-">>, W_M5V, W_DA),
      W_M5V \o SP \o W_DA,
      W_M5V \o SP \o W_DB,
      W_M5W \o SP \o W_DA,
      W_M5W \o SP \o W_DB,
      W_M5Z \o SP \o W_DA,
      W_PostalCode \o SP \o W_Zone \o SP \o W_M5Z \o SP \o W_DB }

MaxLines == 2

SampleTexts == {Join(ls, <<NL>>) : ls \in SeqsUpTo(SampleLines, 0, MaxLines)}

\* a values line of n tokens: diag in column d, off elsewhere
ValuesLine(n, d, diag, off) == Join([j \in 1..n |-> IF j = d THEN diag ELSE off], SP)

HeaderRow == <<W_Origin, Join([j \in 1..26 |-> ZONE_CODES[j]], SP)>>

SampleMatrixPages ==
    { <<>>,
      \* a header row, then one row per origin
      << <<HeaderRow,
           <<W_DA, ValuesLine(26, 1, <<"0">>, <<"5">>)>>,
           <<W_DB, ValuesLine(26, 2, <<"0">>, <<"5">>)>> >> >>,
      \* two origins stacked in one row
      << << <<W_DA \o <<NL>> \o W_DB,
              ValuesLine(26, 1, <<"1">>, <<"2">>) \o <<NL>> \o ValuesLine(26, 2, <<"1">>, <<"1","6">>)>> >> >>,
      \* a short line, and a line with a value above 16
      << << <<W_DA, ValuesLine(25, 1, <<"1">>, <<"2">>)>>,
            <<W_DB, ValuesLine(26, 1, <<"1","7">>, <<"3">>)>> >> >>,
      \* a smaller table first: the larger one is the matrix
      << << <<W_DA, ValuesLine(26, 1, <<"9">>, <<"9">>)>> >>,
         << <<None, W_Legend>>,
            <<W_DA, ValuesLine(26, 1, <<"1">>, <<"4">>)>> >> >>,
      \* a token int() rejects among 27, and a negative value
      << << <<W_DA, ValuesLine(27, 3, <<"x">>, <<"7">>)>>,
            <<W_DB, ValuesLine(26, 2, <<"-","1">>, <<"8">>)>> >> >>,
      \* only DB has a row; one row has a single cell, one an unknown origin
      << << <<W_DB>>,
            <<<<"Z","Z">>, ValuesLine(26, 1, <<"1">>, <<"2">>)>>,
            <<W_DB, ValuesLine(26, 2, <<"1">>, <<"6">>)>> >> >> }

SampleOrigins ==
    { <<"M","5","V","1","A","1">>,
      <<"m","5","w">>,
      <<"M","5","Y","2","B","2">>,
      <<"K","1","A">>,
      <<"M","5">> }

SearchIdle ==
    /\ current_lower = 0
    /\ max_postal = 0
    /\ found_ranges = <<>>

BatchIdle ==
    /\ pdf_files = <<>>
    /\ todo = <<>>
    /\ archive = {}
    /\ failed_parsing = {}
    /\ outputs = <<>>
    /\ success_count = 0
    /\ failed_count = 0
    /\ returned = <<>>

SvcIdle ==
    /\ def_idx = 1
    /\ services = <<>>
    /\ services_data = <<>>
    /\ workbook = <<>>

RateIdle ==
    /\ pdf = <<>>
    /\ work = <<>>
    /\ rates = <<>>
    /\ per_pound_rates = <<>>
    /\ minimum_charges = <<>>

NormIdle ==
    /\ raw_table = <<>>
    /\ table = <<>>
    /\ table2 = <<>>

ZoneIdle ==
    /\ text = <<>>
    /\ zone_tables = <<>>
    /\ postal_zone_map = <<>>
    /\ zone_matrix = <<>>
    /\ origin = <<>>
    /\ origin_zone = None
    /\ zones_data = <<>>

ZoneInit ==
    /\ BatchIdle
    /\ SearchIdle
    /\ pc = "index"
    /\ raw_table = <<>>
    /\ table = <<>>
    /\ table2 = <<>>
    /\ text \in SampleTexts
    /\ zone_tables = <<>>
    /\ postal_zone_map = <<>>
    /\ zone_matrix = <<>>
    /\ origin = <<>>
    /\ origin_zone = None
    /\ zones_data = <<>>
    /\ RateIdle
    /\ SvcIdle

ParsePostal ==
    /\ pc = "index"
    /\ postal_zone_map' = ParsePostalCodeToZoneMapping(text)
    /\ pc' = "mapped"
    /\ UNCHANGED <<normVars, rateVars, svcVars, text, zone_tables, zone_matrix, origin, origin_zone, zones_data, batchVars, searchVars>>

ParseMatrix ==
    /\ pc = "mapped"
    /\ \E tables \in SampleMatrixPages :
          /\ zone_tables' = tables
          /\ zone_matrix' = ParseZoneMatrix(tables)
    /\ pc' = "matrixed"
    /\ UNCHANGED <<normVars, rateVars, svcVars, text, postal_zone_map, origin, origin_zone, zones_data, batchVars, searchVars>>

GenerateZones ==
    /\ pc = "matrixed"
    /\ \E o \in SampleOrigins :
          /\ origin' = o
          /\ origin_zone' = GetZoneCodeForPostal(o, postal_zone_map)
          /\ zones_data' = GenerateZonesData(o, postal_zone_map, zone_matrix)
    /\ pc' = "zoned"
    /\ UNCHANGED <<normVars, rateVars, svcVars, text, zone_tables, postal_zone_map, zone_matrix, batchVars, searchVars>>

ZoneNext == ParsePostal \/ ParseMatrix \/ GenerateZones

SpecZone == ZoneInit /\ [][ZoneNext]_vars

(***************************************************************************)
(* Flat builder runs: the raw tables of a four-page span are scanned in    *)
(* page then table order, then the 100..150 band is synthesised.           *)
(***************************************************************************)
ZoneHeader(zs) == Words([i \in 1..Len(zs) |-> NumStr(zs[i])])

W_Weight == <<"W","e","i","g","h","t">>

W_lbs == <<"l","b","s">>

SampleFlatTables ==
    { \* zones 1..7; a price row; an overage row with rates of 2, 3 and 4 decimals
      << <<W_Weight, ZoneHeader(<<1, 2, 3, 4, 5, 6, 7>>)>>,
         <<NumStr(1), Words(<<AmountStr(1000, 2), AmountStr(2000, 2), AmountStr(3000, 2),
                              AmountStr(4000, 2), AmountStr(5000, 2), AmountStr(6000, 2),
                              AmountStr(7000, 2)>>)>>,
         <<NumStr(100) \o SP \o W_lbs,
           Words(<<AmountStr(100, 2), AmountStr(200, 2), AmountStr(50, 2), AmountStr(125, 3),
                   AmountStr(5, 3), AmountStr(1005, 3), AmountStr(3333, 4)>>)>> >>,
      \* zones 2..8 and 16, the header in the label column; a row with an absent price
      << <<W_Zone \o SP \o ZoneHeader(<<2, 3, 4, 5, 6, 7, 8, 16>>), None>>,
         <<NumStr(2) \o SP \o W_lbs,
           <<"$">> \o AmountStr(1100, 2) \o SP \o <<EmDash>> \o SP \o AmountStr(3100, 2)>>,
         <<<<"P","e","r"," ">> \o NumStr(100) \o W_lbs,
           Words(<<AmountStr(75, 2), AmountStr(75, 2), AmountStr(75, 2), AmountStr(75, 2),
                   AmountStr(75, 2), AmountStr(75, 2), AmountStr(75, 2), AmountStr(995, 3)>>)>> >>,
      \* a header of six zones: no table header
      << <<W_Weight, ZoneHeader(<<1, 2, 3, 4, 5, 6>>)>>,
         <<NumStr(3), Words(<<AmountStr(1200, 2), AmountStr(1300, 2)>>)>>,
         <<NumStr(100) \o SP \o W_lbs,
           Words(<<AmountStr(9, 1), AmountStr(9, 1), AmountStr(9, 1), AmountStr(9, 1),
                   AmountStr(9, 1), AmountStr(9, 1)>>)>> >>,
      \* stacked price rows; an overage row one value short
      << <<None, ZoneHeader(<<1, 2, 3, 4, 5, 6, 7>>)>>,
         <<NumStr(1) \o <<NL>> \o NumStr(99) \o SP \o W_lbs \o <<NL>> \o NumStr(100),
           AmountStr(1050, 2) \o <<NL>> \o Words(<<AmountStr(9900, 2), AmountStr(9950, 2)>>)
               \o <<NL>> \o AmountStr(8800, 2)>>,
         <<NumStr(100) \o SP \o W_lbs,
           Words(<<AmountStr(1, 2), AmountStr(1, 2), AmountStr(1, 2), AmountStr(1, 2),
                   AmountStr(1, 2), AmountStr(1, 2)>>)>> >>,
      \* an envelope row, and an overage row in upper case that sets zones 1..7 anew
      << <<W_Weight, ZoneHeader(<<1, 2, 3, 4, 5, 6, 7>>)>>,
         <<<<"E","n","v","e","l","o","p","e">>, AmountStr(500, 2)>>,
         <<NumStr(100) \o SP \o <<"L","B","S">>,
           Words(<<AmountStr(15, 1), AmountStr(2, 1), AmountStr(2475, 3), AmountStr(1, 2),
                   AmountStr(1, 2), AmountStr(1, 2), AmountStr(1, 2)>>)>> >>,
      \* a price row above the header row, labelled without a space, and below
      \* it a label that is no weight, a weight of 0 and a bare weight
      << <<NumStr(5) \o W_lbs, Words(<<AmountStr(5500, 2), AmountStr(5600, 2)>>)>>,
         <<W_Weight, ZoneHeader(<<1, 2, 3, 4, 5, 6, 7>>)>>,
         <<<<"L","e","t","t","e","r">>, AmountStr(900, 2)>>,
         <<NumStr(0) \o SP \o W_lbs, AmountStr(950, 2)>>,
         <<NumStr(6), AmountStr(6600, 2)>> >> }

MaxFlatTables == 2

\* four pages: the first k tables on the first page, the others on the third
FlatDocs ==
    { << [text |-> <<>>, tables |-> Slice(ts, 1, k)],
         [text |-> <<>>, tables |-> <<>>],
         [text |-> <<>>, tables |-> Slice(ts, k + 1, Len(ts))],
         [text |-> <<>>, tables |-> <<>>] >> :
        ts \in SeqsUpTo(SampleFlatTables, 0, MaxFlatTables), k \in 0..1 }

FlatInit ==
    /\ BatchIdle
    /\ SearchIdle
    /\ pc = "flat_scan"
    /\ pdf \in FlatDocs
    /\ work = SpanTables(pdf, 0, 3)
    /\ rates = <<>>
    /\ per_pound_rates = <<>>
    /\ minimum_charges = <<>>
    /\ NormIdle
    /\ ZoneIdle
    /\ SvcIdle

FlatScanTable ==
    /\ pc = "flat_scan"
    /\ work # <<>>
    /\ LET st == FlatTable(Head(work), [rates |-> rates, per_pound_rates |-> per_pound_rates])
       IN  /\ rates' = st.rates
           /\ per_pound_rates' = st.per_pound_rates
    /\ work' = Tail(work)
    /\ UNCHANGED <<pc, pdf, minimum_charges, normVars, zoneVars, svcVars, batchVars, searchVars>>

FlatSynthesize ==
    /\ pc = "flat_scan"
    /\ work = <<>>
    /\ rates' = FlatSynthesis([rates |-> rates, per_pound_rates |-> per_pound_rates])
    /\ pc' = "flat_done"
    /\ UNCHANGED <<pdf, work, per_pound_rates, minimum_charges, normVars, zoneVars, svcVars, batchVars, searchVars>>

FlatNext == FlatScanTable \/ FlatSynthesize

SpecFlat == FlatInit /\ [][FlatNext]_vars

(***************************************************************************)
(* Freight builder runs: the first table of each page of a two-page span   *)
(* is scanned, then the weights 151..2000 are expanded.                    *)
(***************************************************************************)
Sevenfold(tok) == Words([i \in 1..7 |-> tok])

W_MinimumCharge == <<"M","i","n","i","m","u","m"," ","c","h","a","r","g","e">>

SampleFreightTables ==
    { \* zones 1..7 with a minimum charge; zone 5 pays 0.10 per lb from 1000 lb
      << <<W_Weight, ZoneHeader(<<1, 2, 3, 4, 5, 6, 7>>)>>,
         <<W_MinimumCharge,
           Words(<<AmountStr(15000, 2), AmountStr(15000, 2), AmountStr(15000, 2), AmountStr(15000, 2),
                   AmountStr(15000, 2), AmountStr(4530, 2), NumStr(500)>>)>>,
         <<BRACKETS[1].name \o SP \o W_lbs, Sevenfold(AmountStr(90, 2))>>,
         <<BRACKETS[4].name \o SP \o W_lbs,
           Words(<<AmountStr(20, 2), AmountStr(15, 2), AmountStr(125, 3), AmountStr(11, 2),
                   AmountStr(10, 2), AmountStr(3, 2), AmountStr(25, 2)>>)>>,
         <<BRACKETS[6].name, Sevenfold(AmountStr(5, 2))>> >>,
      \* zones 2..8, no minimum row; rates of 3 decimals; "1000 to1999"
      << <<None, ZoneHeader(<<2, 3, 4, 5, 6, 7, 8>>)>>,
         <<BRACKETS[2].name, Sevenfold(AmountStr(455, 3))>>,
         <<BRACKETS[3].name \o <<NL>> \o BRACKETS[5].name,
           Sevenfold(AmountStr(1005, 4)) \o <<NL>> \o Sevenfold(AmountStr(125, 3))>> >>,
      \* the rows come before the header: nothing is recorded
      << <<BRACKETS[1].name, Sevenfold(AmountStr(70, 2))>>,
         <<W_MinimumCharge, Sevenfold(AmountStr(9900, 2))>>,
         <<W_Weight, ZoneHeader(<<1, 2, 3, 4, 5, 6, 7>>)>> >>,
      \* a bracket given twice, and a minimum row one value short
      << <<W_Weight, ZoneHeader(<<1, 2, 3, 4, 5, 6, 7>>)>>,
         <<W_MinimumCharge, Words([i \in 1..6 |-> AmountStr(100, 2)])>>,
         <<BRACKETS[4].name, Sevenfold(AmountStr(30, 2))>>,
         <<BRACKETS[4].name, Sevenfold(AmountStr(40, 2))>> >>,
      \* a minimum row only, for zones 1..7
      << <<W_Weight, ZoneHeader(<<1, 2, 3, 4, 5, 6, 7>>)>>,
         <<W_MinimumCharge, Sevenfold(AmountStr(25050, 2))>> >> }

MaxFreightTables == 1

FreightDocs ==
    { << [text |-> <<>>, tables |-> a], [text |-> <<>>, tables |-> b] >> :
        a \in SeqsUpTo(SampleFreightTables, 0, MaxFreightTables),
        b \in SeqsUpTo(SampleFreightTables, 0, MaxFreightTables) }

FreightInit ==
    /\ BatchIdle
    /\ SearchIdle
    /\ pc = "freight_scan"
    /\ pdf \in FreightDocs
    /\ work = pdf
    /\ rates = <<>>
    /\ per_pound_rates = <<>>
    /\ minimum_charges = <<>>
    /\ NormIdle
    /\ ZoneIdle
    /\ SvcIdle

FreightScanPage ==
    /\ pc = "freight_scan"
    /\ work # <<>>
    /\ LET st == FreightPage(Head(work).tables,
                             [per_pound_rates |-> per_pound_rates,
                              minimum_charges |-> minimum_charges])
       IN  /\ per_pound_rates' = st.per_pound_rates
           /\ minimum_charges' = st.minimum_charges
    /\ work' = Tail(work)
    /\ UNCHANGED <<pc, pdf, rates, normVars, zoneVars, svcVars, batchVars, searchVars>>

FreightExpand ==
    /\ pc = "freight_scan"
    /\ work = <<>>
    /\ rates' = FreightExpansion([per_pound_rates |-> per_pound_rates,
                                  minimum_charges |-> minimum_charges])
    /\ pc' = "freight_done"
    /\ UNCHANGED <<pdf, work, per_pound_rates, minimum_charges, normVars, zoneVars, svcVars, batchVars, searchVars>>

FreightNext == FreightScanPage \/ FreightExpand

SpecFreight == FreightInit /\ [][FreightNext]_vars

(***************************************************************************)
(* Builder runs: either builder on a span of its own.                      *)
(***************************************************************************)
BuildersInit == FlatInit \/ FreightInit

BuildersNext == FlatNext \/ FreightNext

SpecBuilders == BuildersInit /\ [][BuildersNext]_vars

(***************************************************************************)
(* Batch runs of the US zone parser: the directory branch and the single   *)
(* file branch of cmd_parse_us_zones (pc "us_cmd", "us_cmd_file") and      *)
(* process_directory of parse_fedex_zones.py (pc "us_dir").  A file is its *)
(* place in pdf_files; the moves and the writes of the file system are     *)
(* taken to succeed.                                                       *)
(***************************************************************************)
SampleUsDocs ==
    { \* both sections
      <<<<"F","e","d","E","x"," ","Z","o","n","e"," ","L","o","c","a","t","o",
          "r",NL,"C","o","n","t","i","g","u","o","u","s"," ","U",".","S",".",NL,
          "0","0","5","0","0","-","0","0","5","9","9"," ","5",NL,"0","0","6","0",
          "0"," ","N","A",NL,"A","l","a","s","k","a",","," ","H","a","w","a","i",
          "i",","," ","a","n","d"," ","P","u","e","r","t","o"," ","R","i","c",
          "o",NL,"9","6","7","0","0"," ","9"," ","N","A",NL>>>>,
      \* no pages
      <<>>,
      \* not a FedEx document
      <<<<"Z","o","n","e"," ","c","h","a","r","t",NL,"C","o","n","t","i","g","u",
          "o","u","s"," ","U",".","S",".",NL,"0","0","5","0","0"," ","5",NL,"A",
          "l","a","s","k","a",","," ","H","a","w","a","i","i">>>>,
      \* recognised, but no section
      <<<<"F","e","d","E","x"," ","z","o","n","e"," ","0","0","5","0","0"," ",
          "5">>>>,
      \* a row cut by the page break
      <<<<"F","E","D","E","X"," ","Z","O","N","E",NL,"C","O","N","T","I","G","U",
          "O","U","S"," ","U",".","S","."," ","0","0","5","0","0">>,
        <<" ","7"," ","a","l","a","s","k","a",",","h","a","w","a","i","i">>>>,
      \* the second section only
      <<<<"F","e","d","E","x"," ","z","o","n","e","s",NL,"A","l","a","s","k","a",
          ","," ","H","a","w","a","i","i"," ","a","n","d"," ","P","u","e","r",
          "t","o"," ","R","i","c","o",NL,"9","9","5","0","0"," ","1","3"," ","*",
          NL,"0","0","9","0","0","-","0","0","9","9","9"," ","N","A"," ","4">>>>,
      \* the second section with one zone column
      <<<<"F","e","d","E","x"," ","Z","o","n","e",NL,"A","l","a","s","k","a",",",
          " ","H","a","w","a","i","i",","," ","a","n","d"," ","P","u","e","r",
          "t","o"," ","R","i","c","o",NL,"9","6","7","0","0"," ","9">>>> }

MaxDocs == 3

\* failure reported when nothing failed
UsReturnCodeWhenNone(failed) == IF failed = 0 THEN 1 ELSE 0

\* return 0 if failed_count == 0 else 1
UsReturnCode(failed) == IF failed = 0 THEN 0 ELSE 1

BatchInit ==
    /\ \/ /\ pc \in {"us_cmd", "us_dir"}
          /\ pdf_files \in SeqsUpTo(SampleUsDocs, 0, MaxDocs)
       \/ /\ pc = "us_cmd_file"
          /\ pdf_files \in SeqsUpTo(SampleUsDocs, 1, 1)
    /\ todo = [i \in 1..Len(pdf_files) |-> i]
    /\ archive = {}
    /\ failed_parsing = {}
    /\ outputs = <<>>
    /\ success_count = 0
    /\ failed_count = 0
    /\ returned = <<>>
    /\ NormIdle
    /\ ZoneIdle
    /\ RateIdle
    /\ SvcIdle
    /\ SearchIdle

\* one turn of the loop over pdf_files
BatchProcessFile ==
    /\ pc \in {"us_cmd", "us_dir"}
    /\ returned = <<>>
    /\ todo # <<>>
    /\ LET f == Head(todo)
           got == ProcessUsZonePdf(pdf_files[f])
       IN  IF got.raised = ""
           THEN /\ outputs' = [g \in DOMAIN outputs \cup {f} |->
                                  IF g = f THEN got.rows ELSE outputs[g]]
                /\ archive' = archive \cup {f}
                /\ success_count' = success_count + 1
                /\ UNCHANGED <<failed_parsing, failed_count>>
           ELSE /\ failed_parsing' = failed_parsing \cup {f}
                /\ failed_count' = failed_count + 1
                /\ UNCHANGED <<outputs, archive, success_count>>
    /\ todo' = Tail(todo)
    /\ UNCHANGED <<pc, pdf_files, returned, normVars, zoneVars, rateVars, svcVars, searchVars>>

\* the return after the loop; an empty directory returns the same values early
BatchReturn ==
    /\ pc \in {"us_cmd", "us_dir"}
    /\ returned = <<>>
    /\ todo = <<>>
    /\ returned' = IF pc = "us_cmd" THEN <<UsReturnCode(failed_count)>>
                   ELSE <<success_count, failed_count>>
    /\ UNCHANGED <<pc, pdf_files, todo, archive, failed_parsing, outputs, success_count,
                   failed_count, normVars, zoneVars, rateVars, svcVars, searchVars>>

\* the single file branch: nothing is moved
SingleFile ==
    /\ pc = "us_cmd_file"
    /\ returned = <<>>
    /\ LET got == ProcessUsZonePdf(pdf_files[1])
       IN  IF got.raised = ""
           THEN /\ outputs' = [g \in {1} |-> got.rows]
                /\ returned' = <<0>>
           ELSE /\ returned' = <<1>>
                /\ UNCHANGED outputs
    /\ todo' = <<>>
    /\ UNCHANGED <<pc, pdf_files, archive, failed_parsing, success_count, failed_count,
                   normVars, zoneVars, rateVars, svcVars, searchVars>>

BatchNext == BatchProcessFile \/ BatchReturn \/ SingleFile

SpecBatch == BatchInit /\ [][BatchNext]_vars

(***************************************************************************)
(* Range search runs: the loop of find_all_ranges from a start bound up    *)
(* to the largest postal code, every probe answering either way.           *)
(***************************************************************************)
MaxPostalHundreds == 3

SampleMaxPostals == {100 * h + r : h \in 0..MaxPostalHundreds, r \in {0, 99}}

StartLowers == {0, 100}

SearchInit ==
    /\ pc = "search"
    /\ current_lower \in StartLowers
    /\ max_postal \in SampleMaxPostals
    /\ found_ranges = <<>>
    /\ NormIdle
    /\ ZoneIdle
    /\ RateIdle
    /\ SvcIdle
    /\ BatchIdle

\* one turn of the while loop
SearchStep ==
    /\ pc = "search"
    /\ current_lower <= max_postal
    /\ \E exists \in SUBSET INCREMENTS :
          LET result == FindNextRange(current_lower, exists)
          IN  IF result # <<>>
              THEN /\ found_ranges' = Append(found_ranges, result[1])
                   /\ current_lower' = AfterRange(result[1])
              ELSE /\ current_lower' = AfterMiss(current_lower)
                   /\ UNCHANGED found_ranges
    /\ UNCHANGED <<pc, max_postal, normVars, zoneVars, rateVars, svcVars, batchVars>>

\* the loop condition fails: found_ranges is returned
SearchReturn ==
    /\ pc = "search"
    /\ current_lower > max_postal
    /\ pc' = "searched"
    /\ UNCHANGED <<normVars, zoneVars, rateVars, svcVars, batchVars, searchVars>>

SearchNext == SearchStep \/ SearchReturn

SpecSearch == SearchInit /\ [][SearchNext]_vars

\* the loop is sequential and every probe returns (each request has a timeout)
SpecSearchLive == SpecSearch /\ WF_vars(SearchNext)

(***************************************************************************)
(* Normalizer runs: a raw table as the extraction library hands it over    *)
(* (every row has at least one cell), normalised by either builder, and    *)
(* the result normalised once more.                                        *)
(***************************************************************************)
MaxCols == 2

MaxRows == 2

SampleCells ==
    { None,
      <<" ", "a">>,
      <<"a", "\n", " ", "b", " ">>,
      <<"a", "\n", "\n", "c">> }

\* the extraction library gives every row of a table one cell per column
SampleTables ==
    UNION {SeqsUpTo([1..c -> SampleCells], 0, MaxRows) : c \in 1..MaxCols}

NormInit ==
    /\ BatchIdle
    /\ SearchIdle
    /\ pc = "raw"
    /\ raw_table \in SampleTables
    /\ table = <<>>
    /\ table2 = <<>>
    /\ ZoneIdle
    /\ RateIdle
    /\ SvcIdle

NormalizeFlat ==
    /\ pc = "raw"
    /\ table' = NormalizeTable(raw_table)
    /\ pc' = "normalized"
    /\ UNCHANGED <<raw_table, table2, zoneVars, rateVars, svcVars, batchVars, searchVars>>

NormalizeFreight ==
    /\ pc = "raw"
    /\ table' = FreightNormalizeTable(raw_table)
    /\ pc' = "normalized"
    /\ UNCHANGED <<raw_table, table2, zoneVars, rateVars, svcVars, batchVars, searchVars>>

NormalizeAgain ==
    /\ pc = "normalized"
    /\ table2' = NormalizeTable(table)
    /\ pc' = "renormalized"
    /\ UNCHANGED <<raw_table, table, zoneVars, rateVars, svcVars, batchVars, searchVars>>

NormNext == NormalizeFlat \/ NormalizeFreight \/ NormalizeAgain

SpecNorm == NormInit /\ [][NormNext]_vars

(***************************************************************************)
(* Service locator runs: the locator takes the entries of                  *)
(* SERVICE_DEFINITIONS in turn over the pages of a document.               *)
(***************************************************************************)
TitleLine(d) == Words(<<SERVICE_DEFINITIONS[d].search, W_Rates>>)

SampleTitlePages ==
    { [text |-> <<>>, tables |-> <<>>],
      [text |-> TitleLine(1), tables |-> <<>>],
      [text |-> TitleLine(5), tables |-> <<>>],
      [text |-> TitleLine(1) \o <<NL>> \o TitleLine(5), tables |-> <<>>],
      \* the economy title is on the sixth line
      [text |-> Words(<<TitleLine(6), <<"F","r","e","i","g","h","t">>>>)
                    \o <<NL, NL, NL, NL, NL>> \o TitleLine(5),
       tables |-> <<>>] }

MaxPages == 5

LocatorInit ==
    /\ BatchIdle
    /\ SearchIdle
    /\ pc = "detect"
    /\ pdf \in SeqsUpTo(SampleTitlePages, 0, MaxPages)
    /\ def_idx = 1
    /\ services = <<>>
    /\ services_data = <<>>
    /\ workbook = <<>>
    /\ work = <<>>
    /\ rates = <<>>
    /\ per_pound_rates = <<>>
    /\ minimum_charges = <<>>
    /\ NormIdle
    /\ ZoneIdle

LocateService ==
    /\ pc = "detect"
    /\ def_idx <= Len(SERVICE_DEFINITIONS)
    /\ services' = DetectService(SERVICE_DEFINITIONS[def_idx], pdf, services)
    /\ def_idx' = def_idx + 1
    /\ UNCHANGED <<pc, services_data, workbook, normVars, zoneVars, rateVars, batchVars, searchVars>>

LocatorReturn ==
    /\ pc = "detect"
    /\ def_idx > Len(SERVICE_DEFINITIONS)
    /\ pc' = "detected"
    /\ UNCHANGED <<normVars, zoneVars, rateVars, svcVars, batchVars, searchVars>>

LocatorNext == LocateService \/ LocatorReturn

SpecLocator == LocatorInit /\ [][LocatorNext]_vars

(***************************************************************************)
(* Runs of parse-ca-rates: cmd_parse_ca_rates on an opened document, with  *)
(* or without an origin.  An exception of a builder leaves the command;    *)
(* nothing is written then.                                                *)
(***************************************************************************)
BlankPage == [text |-> <<>>, tables |-> <<>>]

IndexPage ==
    [text |-> Join(<<W_PostalCodeZoneIndex,
                     RangeLine(W_M5V, <<EnDash>>, W_M5V, W_DA),
                     RangeLine(W_M5W, <<EnDash>>, W_M5Z, W_DB)>>, <<NL>>),
     tables |-> <<>>]

MatrixPage ==
    [text |-> W_IntraCanadaZoneIndex,
     tables |-> << <<HeaderRow,
                     <<W_DA, ValuesLine(26, 1, <<"0">>, <<"5">>)>>,
                     <<W_DB, ValuesLine(26, 2, <<"0">>, <<"5">>)>> >> >>]

\* zone header "1 2", price row "1 10.00 20.00", per-100-lb row "100 lbs 1.00 2.00"
TwoZoneTable ==
    << <<W_Weight, ZoneHeader(<<1, 2>>)>>,
       <<NumStr(1), Words(<<AmountStr(1000, 2), AmountStr(2000, 2)>>)>>,
       <<NumStr(100) \o SP \o W_lbs, Words(<<AmountStr(100, 2), AmountStr(200, 2)>>)>> >>

\* the same rows under a header of seven zones
SevenZoneTable ==
    << <<W_Weight, ZoneHeader(<<1, 2, 3, 4, 5, 6, 7>>)>>,
       <<NumStr(1), Words(<<AmountStr(1000, 2), AmountStr(2000, 2)>>)>>,
       <<NumStr(100) \o SP \o W_lbs, Words(<<AmountStr(100, 2), AmountStr(200, 2)>>)>> >>

EconomyPage(rate_table) == [text |-> TitleLine(5), tables |-> <<rate_table>>]

FreightTitlePage ==
    [text |-> Words(<<TitleLine(6), <<"F","r","e","i","g","h","t">>>>),
     tables |-> << << <<W_Weight, ZoneHeader(<<1, 2, 3, 4, 5, 6, 7>>)>>,
                      <<W_MinimumCharge, Sevenfold(AmountStr(15000, 2))>>,
                      <<BRACKETS[1].name \o SP \o W_lbs, Sevenfold(AmountStr(90, 2))>> >> >>]

\* index page, matrix page, and the title page of FedEx Economy with its table
ScenarioDoc == <<IndexPage, MatrixPage, EconomyPage(TwoZoneTable)>>

RunDocs ==
    { <<>>,
      ScenarioDoc,
      ScenarioDoc \o <<BlankPage, BlankPage, BlankPage>>,
      <<IndexPage, MatrixPage, EconomyPage(SevenZoneTable), BlankPage, BlankPage, BlankPage>>,
      \* no index pages; a freight service of two pages
      <<FreightTitlePage, BlankPage>>,
      \* no matrix page; a flat service that fits
      <<IndexPage, EconomyPage(SevenZoneTable), BlankPage, BlankPage, BlankPage>>,
      \* no matrix page; the freight title is on the last page
      <<IndexPage, EconomyPage(SevenZoneTable), BlankPage, BlankPage, BlankPage, FreightTitlePage>> }

\* args.origin: the empty string when no origin is given
RunOrigins == SampleOrigins \cup {<<>>}

RunInit ==
    /\ BatchIdle
    /\ SearchIdle
    /\ pc = "run_open"
    /\ pdf \in RunDocs
    /\ origin \in RunOrigins
    /\ text = <<>>
    /\ zone_tables = <<>>
    /\ postal_zone_map = <<>>
    /\ zone_matrix = <<>>
    /\ origin_zone = None
    /\ zones_data = None
    /\ def_idx = 1
    /\ services = <<>>
    /\ services_data = <<>>
    /\ workbook = <<>>
    /\ work = <<>>
    /\ rates = <<>>
    /\ per_pound_rates = <<>>
    /\ minimum_charges = <<>>
    /\ NormIdle

\* the zone index part, run when an origin is given
RunZoneIndex ==
    /\ pc = "run_open"
    /\ IF origin # <<>>
       THEN LET postal_code_page == MarkerPage(pdf, W_PostalCodeZoneIndex)
                zone_matrix_page == MarkerPage(pdf, W_IntraCanadaZoneIndex)
                page_text == IF postal_code_page = <<>> THEN <<>>
                             ELSE pdf[postal_code_page[1] + 1].text
                tables == IF zone_matrix_page = <<>> THEN <<>>
                          ELSE pdf[zone_matrix_page[1] + 1].tables
                map == IF postal_code_page = <<>> THEN <<>>
                       ELSE ParsePostalCodeToZoneMapping(page_text)
                matrix == IF zone_matrix_page = <<>> THEN <<>>
                          ELSE ParseZoneMatrix(tables)
            IN  /\ text' = page_text
                /\ zone_tables' = tables
                /\ postal_zone_map' = map
                /\ zone_matrix' = matrix
                /\ origin_zone' = GetZoneCodeForPostal(origin, map)
                /\ zones_data' = GenerateZonesData(origin, map, matrix)
       ELSE UNCHANGED <<text, zone_tables, postal_zone_map, zone_matrix, origin_zone, zones_data>>
    /\ pc' = "run_indexed"
    /\ UNCHANGED <<origin, normVars, rateVars, svcVars, batchVars, searchVars>>

RunDetect ==
    /\ pc = "run_indexed"
    /\ services' = DetectServicePages(pdf)
    /\ work' = services'
    /\ pc' = "run_parse"
    /\ UNCHANGED <<pdf, rates, per_pound_rates, minimum_charges, def_idx, services_data,
                   workbook, normVars, zoneVars, batchVars, searchVars>>

\* one turn of the loop over the detected services
RunParseService ==
    /\ pc = "run_parse"
    /\ work # <<>>
    /\ LET service == Head(work)
           got == IF service.is_freight
                  THEN ParseFreightRates(pdf, service.pages[1], service.pages[2])
                  ELSE ParseNonFreightRates(pdf, service.pages[1], service.pages[2])
       IN  IF got.raised # ""
           THEN /\ pc' = "run_raised"
                /\ UNCHANGED <<work, services_data>>
           ELSE /\ services_data' = Append(services_data,
                                           [name |-> service.name, rates |-> got.rates,
                                            is_freight |-> service.is_freight])
                /\ work' = Tail(work)
                /\ UNCHANGED pc
    /\ UNCHANGED <<pdf, rates, per_pound_rates, minimum_charges, def_idx, services,
                   workbook, normVars, zoneVars, batchVars, searchVars>>

RunWrite ==
    /\ pc = "run_parse"
    /\ work = <<>>
    /\ workbook' = WriteCaExcel(services_data, zones_data)
    /\ pc' = "run_done"
    /\ UNCHANGED <<def_idx, services, services_data, normVars, zoneVars, rateVars, batchVars, searchVars>>

RunNext == RunZoneIndex \/ RunDetect \/ RunParseService \/ RunWrite

SpecRun == RunInit /\ [][RunNext]_vars

(***************************************************************************)
(* Claims about the Table Normalizer.                                      *)
(***************************************************************************)
NewlinesOf(s) == {j \in 1..Len(s) : s[j] = NL}

\* the number of lines a cell holds: one more than its line breaks
LinesOfCell(cell) == IF cell = None THEN 1 ELSE Cardinality(NewlinesOf(cell)) + 1

LinesOfRow(row) == Max({1} \cup {LinesOfCell(row[k]) : k \in 1..Len(row)})

\* the i-th line of s, cut at the line breaks
LineOfCell(s, i) ==
    LET before == {j \in NewlinesOf(s) : Cardinality({q \in NewlinesOf(s) : q <= j}) = i - 1}
        after  == {j \in NewlinesOf(s) : Cardinality({q \in NewlinesOf(s) : q <= j}) = i}
        first  == IF before = {} THEN 1 ELSE Max(before) + 1
        last   == IF after = {} THEN Len(s) ELSE Min(after) - 1
    IN  Slice(s, first, last)

RECURSIVE RowsBefore(_, _)
RowsBefore(raw, r) == IF r <= 1 THEN 0 ELSE RowsBefore(raw, r - 1) + LinesOfRow(raw[r - 1])

\* C1: every raw row r yields exactly L(r) output rows, L(r) the largest line
\* count of its cells (at least 1); they follow the rows of the raw rows before
\* r, each has the column count of r, and sub-row i holds the i-th lines.
C1_NormalizerShape ==
    pc = "normalized" =>
        /\ Len(table) = RowsBefore(raw_table, Len(raw_table) + 1)
        /\ \A r \in 1..Len(raw_table) :
             \A i \in 1..LinesOfRow(raw_table[r]) :
                LET out == table[RowsBefore(raw_table, r) + i]
                    row == raw_table[r]
                IN  /\ Len(out) = Len(row)
                    /\ LinesOfRow(row) = 1 => out = row
                    /\ LinesOfRow(row) > 1 =>
                         \A k \in 1..Len(row) :
                            out[k] = IF i <= LinesOfCell(row[k]) /\ row[k] # None
                                     THEN Strip(LineOfCell(row[k], i))
                                     ELSE <<>>

\* a two-row table whose second row stacks three lines beside an absent cell
C1_Witness ==
    /\ pc = "normalized"
    /\ Len(raw_table) = 2
    /\ LinesOfRow(raw_table[1]) = 2
    /\ LinesOfRow(raw_table[2]) = 3
    /\ \E k \in 1..Len(raw_table[2]) : raw_table[2][k] = None
    /\ Len(table) = 5

SingleLine(raw) ==
    \A r \in 1..Len(raw) : \A k \in 1..Len(raw[r]) : LinesOfCell(raw[r][k]) = 1

\* C2: a table whose cells are all single-line is returned unchanged, and
\* normalising a normalised table changes nothing.
C2_NormalizerIdempotent ==
    /\ (pc = "normalized" /\ SingleLine(raw_table)) => table = raw_table
    /\ pc = "renormalized" => table2 = table

\* a table with a stacked cell, normalised twice
C2_Witness ==
    /\ pc = "renormalized"
    /\ ~SingleLine(raw_table)
    /\ Len(table) >= 3
    /\ table2 = table
    /\ table # raw_table

(***************************************************************************)
(* Claims about the Zone Index Builder and the Zone Resolver.              *)
(***************************************************************************)
\* the entries of the map whose inclusive bounds bracket the prefix
Bracketing(fsa, map) ==
    {i \in 1..Len(map) : StrLe(map[i].key[1], fsa) /\ StrLe(fsa, map[i].key[2])}

OriginPrefix == UpperStr(Prefix(origin, 3))

\* C3: an origin whose prefix lies in exactly one range of the map resolves to
\* that range's code; one whose prefix lies in no range resolves to None, and
\* the zone dataset is empty.
C3_ResolverUniqueRange ==
    pc = "zoned" =>
        LET hits == Bracketing(OriginPrefix, postal_zone_map)
        IN  /\ Cardinality(hits) = 1 =>
                  origin_zone = postal_zone_map[CHOOSE i \in hits : TRUE].val
            /\ hits = {} => (origin_zone = None /\ zones_data = <<>>)

\* a lower-case origin inside exactly one of two ranges, the second one
C3_Witness ==
    /\ pc = "zoned"
    /\ origin = <<"m","5","w">>
    /\ Len(postal_zone_map) = 2
    /\ Bracketing(OriginPrefix, postal_zone_map) = {2}
    /\ origin_zone = postal_zone_map[2].val

\* C4: with the origin resolved to zone O, the row of every range mapped to a
\* destination zone D carries matrix[(O, D)] when the matrix has that entry and
\* the sentinel 16 when it has none.
C4_MatrixExpansion ==
    (pc = "zoned" /\ origin_zone # None) =>
        \A i \in 1..Len(postal_zone_map) :
            LET e == postal_zone_map[i]
                expected == IF <<origin_zone, e.val>> \in DOMAIN zone_matrix
                            THEN zone_matrix[<<origin_zone, e.val>>]
                            ELSE 16
            IN  /\ \E r \in 1..Len(zones_data) :
                      zones_data[r][5] = e.key[1] /\ zones_data[r][6] = e.key[2]
                /\ \A r \in 1..Len(zones_data) :
                      (zones_data[r][5] = e.key[1] /\ zones_data[r][6] = e.key[2])
                          => zones_data[r][3] = expected

\* a matrix with rows, none of them for the origin's zone: every row carries 16
C4_Witness ==
    /\ pc = "zoned"
    /\ origin_zone # None
    /\ DOMAIN zone_matrix # {}
    /\ Len(zones_data) = 2
    /\ \A r \in 1..Len(zones_data) : zones_data[r][3] = 16
    /\ \A i \in 1..Len(postal_zone_map) :
          <<origin_zone, postal_zone_map[i].val>> \notin DOMAIN zone_matrix

\* entry j lies inside entry i and is not the same range
StrictlyInside(map, j, i) ==
    /\ StrLe(map[i].key[1], map[j].key[1])
    /\ StrLe(map[j].key[2], map[i].key[2])
    /\ map[i].key # map[j].key

\* C9: the origin prefix resolves to the code of a tightest range bracketing
\* it: no other bracketing range lies inside the one whose code is returned.
C9_TightestRange ==
    pc = "zoned" =>
        LET hits == Bracketing(OriginPrefix, postal_zone_map)
        IN  hits # {} =>
               \E i \in hits :
                  /\ origin_zone = postal_zone_map[i].val
                  /\ \A j \in hits : ~StrictlyInside(postal_zone_map, j, i)

\* C10: every distance stored in the zone matrix, and every numeric zone of
\* the zone dataset, is an integer in 1..16.
C10_DistanceRange ==
    /\ \A k \in DOMAIN zone_matrix : zone_matrix[k] \in 1..16
    /\ \A r \in 1..Len(zones_data) : zones_data[r][3] \in 1..16

(***************************************************************************)
(* Claims about the rate table builders.                                   *)
(***************************************************************************)
\* weight x rate rounded half up to cents: floor(|x| * 100 + 1/2), signed
HalfUpCents(weight, rate) ==
    LET n == Abs(weight * rate.c)
        cents == (2 * n * 100 + Pow10(rate.e)) \div (2 * Pow10(rate.e))
    IN  IF rate.c < 0 THEN 0 - cents ELSE cents

\* C5: in the flat builder's table every weight 101..150 has, for each zone
\* with a captured per-pound overage rate r, the price round_half_up(w * r, 2),
\* and no entry for a zone without one.
C5_FlatExtrapolation ==
    pc = "flat_done" =>
        \A w \in 101..150 :
            /\ w \in DOMAIN rates
            /\ \A z \in 1..16 :
                  IF z \in DOMAIN per_pound_rates
                  THEN /\ z \in DOMAIN rates[w]
                       /\ rates[w][z] = [c |-> HalfUpCents(w, per_pound_rates[z]), e |-> 2]
                  ELSE z \notin DOMAIN rates[w]

\* rate 0.50 in zone 3 gives 60.00 at 120 lb; 0.125 in zone 4 gives 12.63 at
\* 101 lb; zone 8 has no rate and no entry
C5_Witness ==
    /\ pc = "flat_done"
    /\ 3 \in DOMAIN per_pound_rates
    /\ per_pound_rates[3] = [c |-> 50, e |-> 2]
    /\ rates[120][3] = [c |-> 6000, e |-> 2]
    /\ per_pound_rates[4] = [c |-> 125, e |-> 3]
    /\ rates[101][4] = [c |-> 1263, e |-> 2]
    /\ 8 \notin DOMAIN rates[120]

\* the bracket containing a weight of 151..2000
BracketContaining(w) ==
    CHOOSE b \in {<<151, 299>>, <<300, 499>>, <<500, 999>>, <<1000, 1999>>, <<2000, 2000>>} :
        b[1] <= w /\ (w <= b[2] \/ b[1] = 2000)

\* a = b as amounts
SameAmount(a, b) == a.c * Pow10(b.e) = b.c * Pow10(a.e)

\* C6: in the freight builder's table, for every weight 151..2000 and zone with
\* a per-pound rate r in the weight's bracket, the price is
\* round_half_up(w * r, 2), raised to the zone's minimum charge when one is
\* defined and larger; so no price is below its zone's minimum charge.
C6_FreightTierMinimum ==
    pc = "freight_done" =>
        \A w \in 151..2000 :
            LET b == BracketContaining(w)
            IN  \A z \in 1..16 :
                   (b \in DOMAIN per_pound_rates /\ z \in DOMAIN per_pound_rates[b]) =>
                       LET computed == [c |-> HalfUpCents(w, per_pound_rates[b][z]), e |-> 2]
                       IN  /\ z \in DOMAIN rates[w]
                           /\ IF z \in DOMAIN minimum_charges
                              THEN /\ SameAmount(rates[w][z],
                                                 IF DecLess(computed, minimum_charges[z])
                                                 THEN minimum_charges[z] ELSE computed)
                                   /\ ~DecLess(rates[w][z], minimum_charges[z])
                              ELSE rates[w][z] = computed

\* rate 0.10 and minimum 150.00 in zone 5: 150.00 at 1200 lb, 199.90 at 1999 lb
C6_Witness ==
    /\ pc = "freight_done"
    /\ <<1000, 1999>> \in DOMAIN per_pound_rates
    /\ per_pound_rates[<<1000, 1999>>][5] = [c |-> 10, e |-> 2]
    /\ minimum_charges[5] = [c |-> 15000, e |-> 2]
    /\ rates[1200][5] = [c |-> 15000, e |-> 2]
    /\ rates[1999][5] = [c |-> 19990, e |-> 2]
    /\ rates[2000][5] = [c |-> 15000, e |-> 2]
    /\ rates[299][5] = [c |-> 26910, e |-> 2]

(***************************************************************************)
(* Claims about the Service Locator.                                       *)
(***************************************************************************)
\* the place of a service name in the catalog
DefIndexOf(name) == CHOOSE d \in 1..Len(SERVICE_DEFINITIONS) : SERVICE_DEFINITIONS[d].name = name

\* the pages (0-based) on which entry d of the catalog qualifies
QualifyingPages(d) ==
    {i \in 0..(Len(pdf) - 1) : TitleFound(pdf[i + 1].text, SERVICE_DEFINITIONS[d].search)}

InSpan(i, svc) == svc.pages[1] <= i /\ i <= svc.pages[2]

ClaimOrder ==
    \A n \in 1..Len(services) :
        LET d == DefIndexOf(services[n].name)
        IN  /\ \A m \in 1..(n - 1) : DefIndexOf(services[m].name) < d
            /\ services[n].pages[1] \in QualifyingPages(d)
            /\ \A m \in 1..(n - 1) : ~InSpan(services[n].pages[1], services[m])
            /\ \A i \in QualifyingPages(d) :
                  i < services[n].pages[1] => \E m \in 1..(n - 1) : InSpan(i, services[m])

ClaimsKept ==
    /\ Len(services') >= Len(services)
    /\ SubSeq(services', 1, Len(services)) = services

\* C7: services are bound in catalog order; each one starts on its first
\* qualifying page outside every span claimed by an earlier entry, and a span
\* once claimed is never changed or handed to a later entry.
C7_LocatorDeterminism == []ClaimOrder /\ [][ClaimsKept]_vars

\* both titles on page 0: the earlier entry takes pages 0..3, the later one
\* starts on its next title page, page 4
C7_Witness ==
    /\ pc = "detected"
    /\ Len(pdf) = 5
    /\ QualifyingPages(1) = {0}
    /\ QualifyingPages(5) = {0, 4}
    /\ Len(services) = 2
    /\ services[1].name = "FedEx First Overnight" /\ services[1].pages = <<0, 3>>
    /\ services[2].name = "FedEx Economy" /\ services[2].pages[1] = 4

(***************************************************************************)
(* Claims about whole runs of parse-ca-rates.                              *)
(***************************************************************************)
ScenarioRun == pdf = ScenarioDoc /\ origin = <<"M","5","V","1","A","1">>

HasPrice(rate_table, weight, zone, amount) ==
    /\ weight \in DOMAIN rate_table
    /\ zone \in DOMAIN rate_table[weight]
    /\ SameAmount(rate_table[weight][zone], amount)

\* C8: the run on the three-page scenario document with origin M5V1A1 ends
\* with the origin resolved to DA, the destination M5W..M5Z at distance 5, and
\* a FedEx Economy table with 10.00 at (1, 1) and 120.00 at (120, 1).
C8_ScenarioRun ==
    (ScenarioRun /\ pc \in {"run_done", "run_raised"}) =>
        /\ pc = "run_done"
        /\ origin_zone = W_DA
        /\ \E n \in 1..Len(zones_data) :
              /\ zones_data[n][5] = W_M5W
              /\ zones_data[n][6] = W_M5Z
              /\ zones_data[n][3] = 5
        /\ \E n \in 1..Len(services_data) :
              /\ services_data[n].name = "FedEx Economy"
              /\ HasPrice(services_data[n].rates, 1, 1, [c |-> 1000, e |-> 2])
              /\ HasPrice(services_data[n].rates, 120, 1, [c |-> 12000, e |-> 2])

(***************************************************************************)
(* Claims about the rate tables as a whole.                                *)
(***************************************************************************)
\* the cells of a table: the (weight, zone) pairs that hold a price
CellsOf(rate_table) ==
    {wz \in (DOMAIN rate_table) \X (1..16) : wz[2] \in DOMAIN rate_table[wz[1]]}

\* what the scans write straight from the page: flat price rows of 1..99 lb,
\* and nothing in the freight builder
ParsedOnly ==
    /\ pc = "flat_scan" => DOMAIN rates \subseteq 1..99
    /\ pc = "freight_scan" => rates = <<>>

\* the derived cells lie in 100..150 resp. 151..2000 and hold the formula's value
DerivedOnly ==
    /\ pc = "flat_done" =>
          \A wz \in CellsOf(rates) :
              wz[1] >= 100 =>
                  /\ wz[1] <= 150
                  /\ wz[2] \in DOMAIN per_pound_rates
                  /\ rates[wz[1]][wz[2]] =
                         [c |-> HalfUpCents(wz[1], per_pound_rates[wz[2]]), e |-> 2]
    /\ pc = "freight_done" =>
          \A wz \in CellsOf(rates) : wz[1] \in 151..2000

\* the derivation step leaves every cell the scan wrote as it is
DerivationKeepsParsed ==
    (pc \in {"flat_scan", "freight_scan"} /\ pc' \in {"flat_done", "freight_done"}) =>
        \A wz \in CellsOf(rates) :
            /\ wz \in CellsOf(rates')
            /\ rates'[wz[1]][wz[2]] = rates[wz[1]][wz[2]]

\* C11: in the table a builder returns every cell is either a value parsed by
\* the scan (flat, 1..99 lb) or a value derived by the formula (flat 100..150,
\* freight 151..2000); the derivation writes no cell the scan wrote.
C11_OnePathPerCell == [](ParsedOnly /\ DerivedOnly) /\ [][DerivationKeepsParsed]_vars

\* a flat table with a parsed cell at 1 lb and a derived cell at 120 lb
C11_Witness ==
    /\ pc = "flat_done"
    /\ <<1, 1>> \in CellsOf(rates)
    /\ <<120, 1>> \in CellsOf(rates)
    /\ <<99, 1>> \in CellsOf(rates)

\* C12: no table a builder returns holds a weight row whose zone-to-price
\* mapping is empty.
C12_NoPlaceholderRows ==
    pc \in {"flat_done", "freight_done"} =>
        \A w \in DOMAIN rates : rates[w] # <<>>

(***************************************************************************)
(* Claims about error handling in runs of parse-ca-rates.                  *)
(***************************************************************************)
PostalPageAbsent == MarkerPage(pdf, W_PostalCodeZoneIndex) = <<>>

MatrixPageAbsent == MarkerPage(pdf, W_IntraCanadaZoneIndex) = <<>>

OriginUnresolved == GetZoneCodeForPostal(origin, postal_zone_map) = None

RunEnded == pc \in {"run_done", "run_raised"}

\* the zone sections a structural absence leaves empty
AbsentSectionsEmpty ==
    /\ PostalPageAbsent => postal_zone_map = <<>> /\ zones_data = <<>>
    /\ MatrixPageAbsent => zone_matrix = <<>>
    /\ OriginUnresolved => zones_data = <<>>

\* a table was built for every service the locator found, in its order
EveryServiceBuilt ==
    /\ services = DetectServicePages(pdf)
    /\ Len(services_data) = Len(services)
    /\ \A n \in 1..Len(services) : services_data[n].name = services[n].name

\* C13: when an origin is given and the postal index page or the matrix page
\* is absent, or the origin lies in no postal range, the run raises no error,
\* the affected sections are empty, and a rate table is built for every
\* detected service.
C13_AbsenceNonFatal ==
    (RunEnded /\ origin # <<>> /\ (PostalPageAbsent \/ MatrixPageAbsent \/ OriginUnresolved)) =>
        /\ pc = "run_done"
        /\ AbsentSectionsEmpty
        /\ EveryServiceBuilt

\* C14: when an origin is given and the matrix page is absent, so that the zone
\* matrix is empty, the run ends in an error and hands no zone dataset to the
\* writer.
C14_NoMatrixIsFailure ==
    (RunEnded /\ origin # <<>> /\ MatrixPageAbsent) =>
        /\ pc # "run_done"
        /\ workbook = <<>>

(***************************************************************************)
(* Claims about batches of US zone documents.                              *)
(***************************************************************************)
\* the document fails its validation: not recognised, or no zone data
FailsValidation(doc) ==
    LET text_ == ExtractTextFromPdf(doc)
    IN  \/ ~ValidateFedexPdf(text_)
        \/ (ParseContiguousUs(text_) = <<>> /\ ParseAlaskaHawaiiPr(text_) = <<>>)

BatchFiles == 1..Len(pdf_files)

BatchReturned == pc \in {"us_cmd", "us_dir"} /\ returned # <<>>

\* C15: when a directory has been processed, every document that fails its
\* validation is in the failed set and every other one has its sheet written
\* and is in the archive set; no document is in both; the counts are the sizes
\* of the two sets and add up to the number of documents; and the run reports
\* failure exactly when a document failed.
C15_BatchIsolation ==
    BatchReturned =>
        /\ failed_parsing = {f \in BatchFiles : FailsValidation(pdf_files[f])}
        /\ archive = BatchFiles \ failed_parsing
        /\ DOMAIN outputs = archive
        /\ success_count = Cardinality(archive)
        /\ failed_count = Cardinality(failed_parsing)
        /\ success_count + failed_count = Len(pdf_files)
        /\ pc = "us_cmd" => returned = <<IF failed_parsing = {} THEN 0 ELSE 1>>
        /\ pc = "us_dir" => returned = <<success_count, failed_count>>

\* three documents, the second of which is recognised but holds no zone data
C15_Witness ==
    /\ BatchReturned
    /\ pc = "us_cmd"
    /\ Len(pdf_files) = 3
    /\ ValidateFedexPdf(ExtractTextFromPdf(pdf_files[2]))
    /\ failed_parsing = {2}
    /\ archive = {1, 3}
    /\ returned = <<1>>

(***************************************************************************)
(* Claims about the rows of a flat table.                                  *)
(***************************************************************************)
\* the price cells of a row: the tokens of its second column, currency sign removed
PriceCells(row) == SplitWS(RemoveChar(StrippedCell(row[2]), "$"))

\* the row is neither a label row nor the overage row
IsPlainRow(row) ==
    /\ Len(row) >= 2
    /\ LET label == LowerStr(StrippedCell(row[1]))
       IN  /\ ~Contains(label, W_weight)
           /\ ~Contains(label, W_zone)
           /\ ~Contains(label, W_envelope)
           /\ ~Contains(label, W_pak)
           /\ ~Contains(label, W_100_lbs)
           /\ ~Contains(RemoveChar(label, " "), W_100lbs)

\* the weight of a price row, << >> when the row is not one
PriceRowWeight(row) ==
    IF ~IsPlainRow(row) THEN <<>>
    ELSE LET weight == ParseWeightFromLine(StrippedCell(row[1]))
         IN  IF weight # <<>> /\ 1 <= weight[1] /\ weight[1] <= 99 THEN weight ELSE <<>>

\* the weights that one row only of the table prices
PricedOnce(table_) ==
    {w \in 1..99 :
        Cardinality({r \in 1..Len(table_) : PriceRowWeight(table_[r]) = <<w>>}) = 1}

\* the entry of (weight, zone) in a rate table, << >> when there is none
EntryOf(rate_table, weight, zone) ==
    IF weight \in DOMAIN rate_table /\ zone \in DOMAIN rate_table[weight]
    THEN <<rate_table[weight][zone]>>
    ELSE <<>>

\* the k-th cell of a price row decides the entry of the k-th header zone
CellDecidesZone(row, zones, weight, k) ==
    LET price == CleanRate(PriceCells(row)[k])
    IN  IF price # <<>>
        THEN EntryOf(rates', weight, zones[k]) = price
        ELSE EntryOf(rates', weight, zones[k]) = EntryOf(rates, weight, zones[k])

\* every cell of every price row of the scanned table decides its own zone
RowsPositional(table_, zones) ==
    \A r \in 1..Len(table_) :
        LET weight == PriceRowWeight(table_[r])
        IN  (weight # <<>> /\ weight[1] \in PricedOnce(table_)) =>
                \A k \in 1..Min({Len(zones), Len(PriceCells(table_[r]))}) :
                    CellDecidesZone(table_[r], zones, weight[1], k)

ScannedTablePositional ==
    (pc = "flat_scan" /\ work # <<>>) =>
        (FindZones(NormalizeTable(Head(work))) # <<>> =>
            RowsPositional(NormalizeTable(Head(work)), FindZones(NormalizeTable(Head(work)))))

\* C16: when the flat builder scans a table, the k-th price cell of a price
\* row is the entry of the k-th zone of the table's header, and an absent cell
\* leaves the entry of its own zone as it was, whatever cells come before it.
C16_PositionalAssignment == [][ScannedTablePositional]_vars

(***************************************************************************)
(* Claims about the spans the locator returns.                             *)
(***************************************************************************)
\* the two services share a page
SpansMeet(svc1, svc2) ==
    svc1.pages[1] <= svc2.pages[2] /\ svc2.pages[1] <= svc1.pages[2]

\* C17: when the locator has returned, the page ranges start..end of any two
\* services of the result have no page in common.
C17_SpansExclusive ==
    pc = "detected" =>
        \A n \in 1..Len(services) : \A m \in 1..Len(services) :
            n # m => ~SpansMeet(services[n], services[m])

(***************************************************************************)
(* Claims about the band the flat synthesis writes.                        *)
(***************************************************************************)
\* the entries of one weight: its zone-to-price mapping, empty when it has no row
RowEntries(rate_table, weight) ==
    IF weight \in DOMAIN rate_table THEN rate_table[weight] ELSE <<>>

\* the synthesis step changes the entries of no weight outside lo..150
SynthesisWithin(lo) ==
    (pc = "flat_scan" /\ pc' = "flat_done") =>
        /\ \A w \in 1..(lo - 1) : RowEntries(rates', w) = RowEntries(rates, w)
        /\ \A w \in DOMAIN rates \cup DOMAIN rates' :
              RowEntries(rates', w) # RowEntries(rates, w) => w \in lo..150

\* C18 as stated: the synthesis step leaves the entries of every weight up to
\* 100 as the scan parsed them and adds entries only for weights 101..150.
C18_SynthesisBand101 == [][SynthesisWithin(101)]_vars

\* C18 amended: the synthesis step leaves the entries of every weight up to 99
\* as the scan parsed them and adds entries only for weights 100..150.
C18_SynthesisBand100 == [][SynthesisWithin(100)]_vars

\* a parsed row at 99 lb kept next to a synthesised row at 100 lb
C18_Witness ==
    /\ pc = "flat_done"
    /\ <<99, 2>> \in CellsOf(rates)
    /\ 1 \in DOMAIN per_pound_rates
    /\ EntryOf(rates, 100, 1) = <<[c |-> 10000, e |-> 2]>>
    /\ 151 \notin DOMAIN rates

(***************************************************************************)
(* Claims about bracket rows met more than once.                           *)
(***************************************************************************)
\* the zone header in force when row r of a page's table is read
ZonesBefore(table_, r) ==
    FreightRows(SubSeq(table_, 1, r - 1),
                [zones |-> <<>>, per_pound_rates |-> <<>>, minimum_charges |-> <<>>]).zones

\* what row r records on its own: << >>, or one bracket with its per-pound rates
RowMatch(table_, r) ==
    FreightRow(table_[r],
               [zones |-> ZonesBefore(table_, r),
                per_pound_rates |-> <<>>,
                minimum_charges |-> <<>>]).per_pound_rates

\* the rows of the table that are matched for the bracket
MatchedRows(table_, bracket_key) ==
    {r \in 1..Len(table_) : bracket_key \in DOMAIN RowMatch(table_, r)}

\* the bracket keeps the rates of the first row matched for it
FirstMatchKept(table_, bracket_key) ==
    IF bracket_key \in DOMAIN per_pound_rates
    THEN /\ bracket_key \in DOMAIN per_pound_rates'
         /\ per_pound_rates'[bracket_key] = per_pound_rates[bracket_key]
    ELSE MatchedRows(table_, bracket_key) # {} =>
            /\ bracket_key \in DOMAIN per_pound_rates'
            /\ per_pound_rates'[bracket_key] =
                   RowMatch(table_, Min(MatchedRows(table_, bracket_key)))[bracket_key]

FirstBracketRowWins ==
    (pc = "freight_scan" /\ work # <<>> /\ Head(work).tables # <<>>) =>
        \A b \in 1..Len(BRACKETS) :
            FirstMatchKept(FreightNormalizeTable(Head(work).tables[1]), BRACKETS[b].key)

\* C19: when rows for one bracket are matched more than once in the pages of
\* a freight service, the bracket holds the per-pound rates of the first
\* matched row; the later rows change nothing.
C19_FirstBracketRowWins == [][FirstBracketRowWins]_vars

(***************************************************************************)
(* Claims about absent cells in the Table Normalizer.                      *)
(***************************************************************************)
\* the cell has an i-th line
HasLine(cell, i) == cell # None /\ i <= LinesOfCell(cell)

\* C20: in every row the normalizer returns, a column whose raw cell is absent
\* or has no i-th line holds the empty string, also when the raw row has no
\* cell with a line break.
C20_AbsentCellsEmpty ==
    pc = "normalized" =>
        \A r \in 1..Len(raw_table) :
            \A i \in 1..LinesOfRow(raw_table[r]) :
                \A k \in 1..Len(raw_table[r]) :
                    ~HasLine(raw_table[r][k], i) =>
                        table[RowsBefore(raw_table, r) + i][k] = <<>>

(***************************************************************************)
(* Claims about the result of the Service Locator.                         *)
(***************************************************************************)
\* the places in the result that hold entry d of the catalog
PlacesOf(d) == {n \in 1..Len(services) : services[n].name = SERVICE_DEFINITIONS[d].name}

\* the qualifying pages of entry d outside every span of an earlier entry
FreePages(d) ==
    {i \in QualifyingPages(d) :
        \A n \in 1..Len(services) :
            DefIndexOf(services[n].name) < d => ~InSpan(i, services[n])}

\* entry d is in the result exactly when it has a free page, and is then
\* bound to the lowest one with the span of its page count
BoundWhenFree(d) ==
    /\ Cardinality(PlacesOf(d)) = (IF FreePages(d) = {} THEN 0 ELSE 1)
    /\ \A n \in PlacesOf(d) :
          /\ services[n].pages[1] = Min(FreePages(d))
          /\ services[n].pages[2] =
                 services[n].pages[1] + SERVICE_DEFINITIONS[d].page_count - 1

\* the result follows the order of the catalog
CatalogOrder ==
    \A n \in 1..Len(services) : \A m \in 1..Len(services) :
        n < m => DefIndexOf(services[n].name) < DefIndexOf(services[m].name)

\* C21: when the locator has returned, a service is in the result exactly when
\* one of its title pages lies outside the spans of the services bound before
\* it; it starts on the lowest such page and ends page_count - 1 pages later;
\* a service without such a page is left out; the result holds each service
\* once at most, in catalog order.
C21_LocatorResult ==
    pc = "detected" =>
        /\ \A d \in 1..Len(SERVICE_DEFINITIONS) : BoundWhenFree(d)
        /\ CatalogOrder

\* both titles on the only title page: the first entry is bound to it, the
\* later entry has a title page but no free one and is left out
C21_Witness ==
    /\ pc = "detected"
    /\ QualifyingPages(1) = {0}
    /\ QualifyingPages(5) = {0}
    /\ FreePages(5) = {}
    /\ Len(services) = 1
    /\ services[1].name = "FedEx First Overnight"
    /\ services[1].pages = <<0, 3>>

(***************************************************************************)
(* Claims about the zone header of a flat table.                           *)
(***************************************************************************)
\* the rows, among the first 5, that hold a cell with 7 zone numbers or more
HeaderRows(table_) ==
    {r \in 1..Min({5, Len(table_)}) :
        \E k \in 1..Len(table_[r]) : Len(ParseZoneNumbers(table_[r][k])) >= 7}

\* the builder's state changes as if the rows after the header row alone were read
RowsAfterHeaderOnly(table_, st) ==
    IF HeaderRows(table_) = {}
    THEN rates' = st.rates /\ per_pound_rates' = st.per_pound_rates
    ELSE LET after == FlatRows(SubSeq(table_, Min(HeaderRows(table_)) + 1, Len(table_)),
                               FindZones(table_), st)
         IN  rates' = after.rates /\ per_pound_rates' = after.per_pound_rates

HeaderGating ==
    (pc = "flat_scan" /\ work # <<>>) =>
        RowsAfterHeaderOnly(NormalizeTable(Head(work)),
                            [rates |-> rates, per_pound_rates |-> per_pound_rates])

\* C22: a table adds prices or overage rates only when one of its first 5
\* normalised rows holds 7 zone numbers or more, and then only through the
\* rows after that header row; a table without such a row adds nothing.
C22_HeaderGating == [][HeaderGating]_vars

(***************************************************************************)
(* Claims about the order in which flat tables are merged.                 *)
(***************************************************************************)
\* what each table of the span supplies on its own, in page then table order
Supplied(tables) ==
    [t \in 1..Len(tables) |-> FlatTable(tables[t], FlatStart).rates]

\* the entry of the last table that supplies a price for (weight, zone)
LastSupplied(supplied, weight, zone) ==
    LET from == {t \in 1..Len(supplied) : EntryOf(supplied[t], weight, zone) # <<>>}
    IN  IF from = {} THEN <<>> ELSE EntryOf(supplied[Max(from)], weight, zone)

MergedInOrder(supplied) ==
    \A weight \in 1..99 : \A zone \in 1..16 :
        EntryOf(rates, weight, zone) = LastSupplied(supplied, weight, zone)

\* C23: the tables of a span are merged in page order and, within a page, in
\* extraction order: every (weight, zone) cell of the parsed rows holds the
\* price of the last table that supplies one for it, and a cell that only an
\* earlier table supplies is kept.
C23_MergeOrder ==
    pc = "flat_done" =>
        MergedInOrder(Supplied(pdf[1].tables \o pdf[2].tables \o pdf[3].tables \o pdf[4].tables))

\* two tables price 1 lb: zone 1 holds the later price, zone 2 the earlier one
C23_Witness ==
    /\ pc = "flat_done"
    /\ Len(pdf[1].tables) = 1
    /\ Len(pdf[3].tables) = 1
    /\ EntryOf(Supplied(pdf[1].tables)[1], 1, 1) = <<[c |-> 1000, e |-> 2]>>
    /\ EntryOf(rates, 1, 1) = <<[c |-> 1050, e |-> 2]>>
    /\ EntryOf(rates, 1, 2) = <<[c |-> 2000, e |-> 2]>>

(***************************************************************************)
(* Claims about the token scan of the postal index.                        *)
(***************************************************************************)
\* the key spans more than one code
MultiCode(k) == k[1] # k[2]

\* the entries the token scan has written: absent from, or other than in, the
\* map of the range pattern
FallbackKeys(ranged, map) ==
    {k \in DictKeys(map) : k \notin DictKeys(ranged) \/ DictGet(map, k) # DictGet(ranged, k)}

\* the token scan leaves every multi-code range of the range pattern as it is
\* and writes single-code entries only, none for the start of such a range
FallbackYields(ranged, map) ==
    /\ \A k \in DictKeys(ranged) :
          MultiCode(k) => k \in DictKeys(map) /\ DictGet(map, k) = DictGet(ranged, k)
    /\ \A k \in FallbackKeys(ranged, map) :
          /\ ~MultiCode(k)
          /\ \A j \in DictKeys(map) : MultiCode(j) => j[1] # k[1]

\* C24: the token scan registers a bare code c with its zone code as the range
\* (c, c) only when the map holds no range (c, e) with e other than c; it
\* never changes the zone code of a multi-code range of the range pattern and
\* adds no entry for the start of one.
C24_FallbackYields ==
    pc # "index" => FallbackYields(RangeScan(text, 1, <<>>), postal_zone_map)

\* a range M5V-M5Z in DA and a bare M5V with DB: the map holds the range alone
C24_Witness ==
    /\ pc = "mapped"
    /\ text = RangeLine(W_M5V, <<EnDash>>, W_M5Z, W_DA) \o <<NL>> \o W_M5V \o SP \o W_DB
    /\ DictKeys(postal_zone_map) = {<<W_M5V, W_M5Z>>}
    /\ DictGet(postal_zone_map, <<W_M5V, W_M5Z>>) = W_DA

(***************************************************************************)
(* Claims about the rows of the zone matrix.                               *)
(***************************************************************************)
ZoneCodeSet == {ZONE_CODES[j] : j \in 1..Len(ZONE_CODES)}

\* the row is read: two cells or more, and not a header row
MatrixDataRow(row) ==
    /\ Len(row) >= 2
    /\ ~Contains(CellText(row[1]), W_Origin)
    /\ ~Contains(CellText(row[1]), W_Destination)
    /\ ~Contains(CellText(row[2]), W_Legend)

\* the origin token of sub-line i of the row
OriginToken(row, i) == Strip(LineOfCell(Strip(CellText(row[1])), i))

\* the integers of the values line aligned with sub-line i, << >> without such a line
AlignedIntegers(row, i) ==
    IF i > LinesOfCell(Strip(CellText(row[2]))) THEN <<>>
    ELSE IntValues(SplitWS(LineOfCell(Strip(CellText(row[2])), i)))

\* the stacked sub-lines (row, line) of the data rows of the table
SubLinesOf(zone_table) ==
    UNION {{<<r, i>> : i \in 1..LinesOfCell(Strip(CellText(zone_table[r][1])))} :
              r \in {x \in 1..Len(zone_table) : MatrixDataRow(zone_table[x])}}

\* the sub-lines of the table that bind the origin
BindingSubLines(zone_table, origin_zone_) ==
    {ri \in SubLinesOf(zone_table) :
        /\ OriginToken(zone_table[ri[1]], ri[2]) = origin_zone_
        /\ Len(AlignedIntegers(zone_table[ri[1]], ri[2])) = Len(ZONE_CODES)}

\* the last of a set of sub-lines, in row then line order
LastSubLine(S) ==
    CHOOSE ri \in S : \A other \in S :
        other[1] < ri[1] \/ (other[1] = ri[1] /\ other[2] <= ri[2])

\* the origins of the matrix are bound to exactly these integers
BoundAs(origin_zone_, integers) ==
    [j \in 1..Len(ZONE_CODES) |->
        IF <<origin_zone_, ZONE_CODES[j]>> \in DOMAIN zone_matrix
        THEN <<zone_matrix[<<origin_zone_, ZONE_CODES[j]>>]>>
        ELSE <<>>]
      = [j \in 1..Len(ZONE_CODES) |-> <<integers[j]>>]

\* the origin holds the integers of the last of its binding sub-lines, or nothing
BoundTo(zone_table, origin_zone_, binding) ==
    IF binding = {}
    THEN \A k \in DOMAIN zone_matrix : k[1] # origin_zone_
    ELSE BoundAs(origin_zone_,
                 AlignedIntegers(zone_table[LastSubLine(binding)[1]], LastSubLine(binding)[2]))

\* the origin tokens of the table's data rows, and the origins of the matrix
OriginsNamed(zone_table) ==
    {OriginToken(zone_table[ri[1]], ri[2]) : ri \in SubLinesOf(zone_table)}
        \cup {k[1] : k \in DOMAIN zone_matrix}

MatrixRowBinding(zone_table) ==
    \A o \in OriginsNamed(zone_table) :
        IF o \in ZoneCodeSet
        THEN BoundTo(zone_table, o, BindingSubLines(zone_table, o))
        ELSE \A k \in DOMAIN zone_matrix : k[1] # o

\* C25: in the largest table of the matrix page, a stacked sub-line of a
\* non-header row writes the entries (origin, ZONE_CODES[j]) -> j-th integer
\* for all 26 destinations exactly when its origin token is a zone code and
\* its aligned values line holds exactly 26 integers; every other sub-line
\* writes nothing, and every origin of the matrix comes from such a sub-line.
C25_MatrixRowBinding ==
    pc \in {"matrixed", "zoned"} =>
        IF zone_tables = <<>> THEN zone_matrix = <<>>
        ELSE MatrixRowBinding(LargestTable(zone_tables))

\* two origins stacked in one row: each is bound to its own values line
C25_Witness ==
    /\ pc = "matrixed"
    /\ Len(zone_tables) = 1
    /\ Len(zone_tables[1]) = 1
    /\ BindingSubLines(zone_tables[1], W_DA) = {<<1, 1>>}
    /\ BindingSubLines(zone_tables[1], W_DB) = {<<1, 2>>}
    /\ zone_matrix[<<W_DA, W_DB>>] = 2
    /\ zone_matrix[<<W_DB, W_DA>>] = 16

(***************************************************************************)
(* Claims about the weight labels of a flat table.                         *)
(***************************************************************************)
\* the digits a label starts with
LeadingDigits(label) ==
    Prefix(label, Max({n \in 0..Len(label) : \A i \in 1..n : IsDigit(label[i])}))

\* N for a label of the form "<N> lb" or "<N> lbs", << >> otherwise
LbLabel(label) ==
    LET after == SkipWS(label, Len(LeadingDigits(label)) + 1)
    IN  IF /\ LeadingDigits(label) # <<>>
           /\ after + 1 <= Len(label)
           /\ label[after] = "l"
           /\ label[after + 1] = "b"
        THEN <<DigitsValue(LeadingDigits(label))>>
        ELSE <<>>

\* N for a label whose first word is the bare integer N, << >> otherwise
BareLabel(label) ==
    IF SplitWS(label) # <<>> /\ AllDigits(SplitWS(label)[1])
    THEN <<DigitsValue(SplitWS(label)[1])>>
    ELSE <<>>

\* the weight in 1..99 the label of a plain row stands for, << >> without one
LabelWeight(row) ==
    LET label == StrippedCell(row[1])
        n == IF LbLabel(label) # <<>> THEN LbLabel(label) ELSE BareLabel(label)
    IN  IF IsPlainRow(row) /\ n # <<>> /\ 1 <= n[1] /\ n[1] <= 99 THEN n ELSE <<>>

\* the rows of the table labelled with the weight
LabelledRows(table_, weight) ==
    {r \in 1..Len(table_) : LabelWeight(table_[r]) = <<weight>>}

\* the prices of the row are the entries of the weight, zone by zone
RecordedAt(row, zones, weight) ==
    LET rate_values == ParseRatesLine(StrippedCell(row[2]))
    IN  \A k \in 1..Min({Len(zones), Len(rate_values)}) :
            EntryOf(rates', weight, zones[k]) = <<rate_values[k]>>

\* every labelled row is recorded at its weight; no other weight changes
LabelsDecideWeights(table_, zones) ==
    \A weight \in 0..150 :
        IF LabelledRows(table_, weight) = {}
        THEN RowEntries(rates', weight) = RowEntries(rates, weight)
        ELSE RecordedAt(table_[Max(LabelledRows(table_, weight))], zones, weight)

WeightLabels ==
    (pc = "flat_scan" /\ work # <<>>) =>
        (FindZones(NormalizeTable(Head(work))) # <<>> =>
            LabelsDecideWeights(NormalizeTable(Head(work)),
                                FindZones(NormalizeTable(Head(work)))))

RateDefined(weight, zone) ==
    /\ BracketContaining(weight) \in DOMAIN per_pound_rates
    /\ zone \in DOMAIN per_pound_rates[BracketContaining(weight)]

\* C27: in the table the freight builder returns, a (weight, zone) cell is
\* present exactly when the bracket containing the weight has a per-pound rate
\* for the zone; without one there is no cell, neither a zero nor the zone's
\* minimum charge.
C27_FreightAbsence ==
    pc = "freight_done" =>
        /\ DOMAIN rates \subseteq 151..2000
        /\ \A weight \in 151..2000 :
              DOMAIN RowEntries(rates, weight) = {zone \in 1..16 : RateDefined(weight, zone)}

\* zone 5 has a minimum charge and a rate in 151..299 only among the lower
\* brackets: 299 lb is priced, 300 lb is not
C27_Witness ==
    /\ pc = "freight_done"
    /\ 5 \in DOMAIN minimum_charges
    /\ RateDefined(299, 5)
    /\ ~RateDefined(300, 5)
    /\ 5 \in DOMAIN rates[299]
    /\ rates[300] = <<>>

(***************************************************************************)
(* Claims about the shape of the zone dataset.                             *)
(***************************************************************************)
\* the range a row of the dataset carries
RangeOfRow(r) == <<zones_data[r][5], zones_data[r][6]>>

\* range a comes before range b: by start code, then by end code
RangeBefore(a, b) ==
    \/ (a[1] # b[1] /\ StrLe(a[1], b[1]))
    \/ (a[1] = b[1] /\ a[2] # b[2] /\ StrLe(a[2], b[2]))

\* C28: when the origin resolves, the dataset holds exactly one row for each
\* range of the postal map, carrying the start and end code of the range, and
\* the rows are in ascending order of (start, end).
C28_DatasetShape ==
    (pc = "zoned" /\ origin_zone # None) =>
        /\ Len(zones_data) = Len(postal_zone_map)
        /\ {RangeOfRow(r) : r \in 1..Len(zones_data)} = DictKeys(postal_zone_map)
        /\ \A r \in 1..Len(zones_data) : \A q \in 1..Len(zones_data) :
              r < q => RangeBefore(RangeOfRow(r), RangeOfRow(q))

\* the index lists M5W-M5W before M5V-M5Z: the dataset has M5V-M5Z first
C28_Witness ==
    /\ pc = "zoned"
    /\ origin_zone # None
    /\ Len(postal_zone_map) = 2
    /\ postal_zone_map[1].key = <<W_M5W, W_M5W>>
    /\ postal_zone_map[2].key = <<W_M5V, W_M5Z>>
    /\ RangeOfRow(1) = <<W_M5V, W_M5Z>>
    /\ RangeOfRow(2) = <<W_M5W, W_M5W>>

(***************************************************************************)
(* Claims about the spans handed to the builders.                          *)
(***************************************************************************)
\* the last page of the span is a page of the document (pages count from 0)
SpanInsideDocument(svc) == 0 <= svc.pages[1] /\ svc.pages[2] <= Len(pdf) - 1

\* C29: every span the locator returns lies inside the document, and no
\* builder fails on a missing page when it is handed one.
C29_SpansInsideDocument ==
    /\ \A n \in 1..Len(services) : SpanInsideDocument(services[n])
    /\ pc # "run_raised"

(***************************************************************************)
(* Claims about the range search.                                          *)
(***************************************************************************)
\* a turn of the loop moves the lower bound up: past the range on a hit, by
\* 100 on a miss
LowerIncreases ==
    (pc = "search" /\ pc' = "search") =>
        /\ current_lower' > current_lower
        /\ IF Len(found_ranges') > Len(found_ranges)
           THEN current_lower' = found_ranges'[Len(found_ranges')].upper + 1
           ELSE current_lower' = current_lower + 100

\* the ranges are in ascending order and no two share a code
RangesAscending ==
    /\ \A n \in 1..Len(found_ranges) : found_ranges[n].lower <= found_ranges[n].upper
    /\ \A n \in 1..Len(found_ranges) : \A m \in 1..Len(found_ranges) :
          n < m => found_ranges[n].upper < found_ranges[m].lower

\* C30: the range search ends for every largest postal code and every answer
\* of the probes, the lower bound rising on each turn (to upper + 1 on a hit,
\* by 100 on a miss); the ranges it returns are ascending and pairwise
\* disjoint.
C30_SearchTerminates ==
    /\ <>(pc = "searched")
    /\ [][LowerIncreases]_vars
    /\ []RangesAscending

\* a search that found two ranges with a miss between them
C30_Witness ==
    /\ pc = "searched"
    /\ Len(found_ranges) = 2
    /\ found_ranges[2].lower = found_ranges[1].upper + 101
    /\ current_lower > max_postal

====
